---------------------------- MODULE Spec2Model ----------------------------
(***************************************************************************)
(* A model of the agent runtime of HatimBenzahra/AGENT-V3.                 *)
(*                                                                         *)
(*   Part I    the websocket message handler and the streaming ReAct run   *)
(*             (src/api/websocket/handler.py): connection state, one       *)
(*             asyncio task per accepted run, one action per resumption of *)
(*             a task between two awaits.                                  *)
(*   Part II   the engine run ReActAgent.run (src/agent/react_agent.py)    *)
(*             with loop detection and self-healing.                       *)
(*   Part III  the protected-file registry and delete_file                 *)
(*             (src/session/conversation_context.py, src/tools/file_tools) *)
(*                                                                         *)
(* Each part has its own variables and its own specification; a            *)
(* specification leaves the other parts' variables at their initial value. *)
(***************************************************************************)
EXTENDS Integers, Sequences, FiniteSets, TLC

VARIABLES
    \* ---- Part I: connection state (the dict `state` of websocket_chat)
    is_processing,      \* state["is_processing"]
    should_interrupt,   \* state["should_interrupt"]
    current_plan,       \* state["current_plan"]: NoPlan or an ExecutionPlan
    pending_task,       \* state["pending_task"]: NoTask or the chat content
    active_agent,       \* state["active_agent"]: 0 (None) or the agent of task t
    current_task,       \* state["current_task"]: 0 (None) or a task id
    tasks,              \* the asyncio tasks run_agent(), with their agent and AgentState
    \* ---- Parts I and II
    max_iterations,     \* self.max_iterations of every agent (Config.MAX_ITERATIONS)
    \* ---- Part II: one engine run
    run,                \* the locals of ReActAgent.run and its AgentState
    \* ---- Part III: workspace files and the conversation context's file sets
    fs,                 \* files on disk, created_files, protected_files, last result
    \* ---- Part IV: one planned execution of the orchestrator
    orch,               \* the plan, step_results and the step being executed
    \* ---- Part V: one RecoveryManager
    rm,                 \* _current_retries and what analyze_error returned
    \* ---- Part VI: one conversation context and its files on disk
    ctx,                \* the context in memory, context.json, the loaded copy
    \* ---- Part VII: one editorial ProjectPlan
    pplan,              \* the plan, its dictionary, the plan read back
    \* ---- Part VIII: connections (websocket_chat) and the session registry
    conn,               \* per connection: its position, its session, its agent task
    \* ---- Part IX: one streamed run with the events the client receives
    stream,             \* the run_agent() task, its AgentState and the event log
    \* ---- Part X: one DockerExecutionContext and the Docker daemon
    docker,             \* _started, container, the call in progress, the daemon
    \* ---- Part XI: one ProjectOrchestrator.execute
    proj,               \* the project plan, the results, the pause flag
    \* ---- Part XII: one PlannerAgent.create_plan
    planner,            \* the task, the LLM response, the returned Plan
    \* ---- Part XIII: the plan dialogue of one connection
    dlg,                \* the connection state, the run, the last message and its reply
    \* ---- Part XIV: the message history of one context and the runs on it
    hist                \* message_history, the clock, the runs

wsVars == <<is_processing, should_interrupt, current_plan, pending_task,
            active_agent, current_task, tasks>>
vars == <<is_processing, should_interrupt, current_plan, pending_task,
          active_agent, current_task, tasks, max_iterations, run, fs,
          orch, rm, ctx, pplan, conn, stream, docker, proj, planner, dlg, hist>>

\* The variables of Parts X to XIII.
moreVars == <<docker, proj, planner, dlg, hist>>

\* The variables of Parts IV to XII, which Parts I to III leave alone.
laterVars == <<orch, rm, ctx, pplan, conn, stream, moreVars>>

(***************************************************************************)
(* Bounds of the model and constants of the program.                       *)
(***************************************************************************)
\* Config.MAX_ITERATIONS is read from the environment (default 20); the model
\* runs single runs with the cap MaxIterations and concurrent runs with the
\* cap ConcurrentIterations.
MaxIterations == 5
ConcurrentIterations == 1
\* The number of run_agent() tasks that exist at one time (a finished task's
\* slot is reused).
MaxTasks == 2

\* is_complex_task
KeywordThreshold == 2
WordLimit == 30
\* ReActAgent.run and RecoveryManager
max_repeated_actions == 2
RecentWindow == 10
max_retries == 3

TaskIds == DOMAIN tasks

NoPlan == [status |-> "none", title |-> "none"]

InterruptedMsg == "Task interrupted by user."
TimeoutMsg == "Request timed out."
MaxIterMsg == "Maximum iterations reached. Unable to complete the task."

(***************************************************************************)
(* LLM responses.  A response is the thought it carries (or not) and the   *)
(* texts that follow each "Action:" in it, in order; a text is a sequence  *)
(* of tokens: "FA" is the exact string "Final Answer:", "fa" the same      *)
(* words in another case, "call" a tool call name(json), "txt" other text. *)
(***************************************************************************)
Tok(k) == [k |-> k, tool |-> "", params |-> ""]
Call(tool, params) == [k |-> "call", tool |-> tool, params |-> params]

\* The names of the registered tools the model's responses use
\* (create_session_with_tools registers these among others).
RegisteredTools == {"list_directory", "execute_command"}

\* Parameter texts: "" (nothing between the parentheses), "{}", a JSON
\* object "{p}" and a text that is no JSON.
ParamTexts == {"", "{}", "{p}", "not json"}

\* json.loads of the parameter text, {} when it is empty or fails to parse
\* (react_agent.py 85-88), written as json.dumps writes it.
LoadParams(params_text) == IF params_text = "{p}" THEN "{p}" ELSE "{}"

Resp(thought, actions) == [thought |-> thought, actions |-> actions]

Responses ==
    { Resp(TRUE,  << <<Call("list_directory", "{}")>> >>),
      Resp(TRUE,  << <<Call("list_directory", "{p}")>> >>),
      Resp(FALSE, << <<Call("list_directory", "not json")>> >>),
      Resp(FALSE, << <<Call("no_such_tool", "{}")>> >>),
      Resp(TRUE,  << <<Tok("FA"), Tok("txt")>> >>),
      Resp(FALSE, << <<Tok("fa"), Tok("txt")>> >>),
      Resp(FALSE, << <<Tok("FA")>> >>),
      Resp(TRUE,  << <<Tok("txt"), Tok("FA"), Tok("txt")>> >>),
      Resp(TRUE,  << <<Call("list_directory", "{}"), Tok("FA"), Tok("txt")>> >>),
      Resp(TRUE,  << <<Call("list_directory", "{}")>>, <<Tok("FA"), Tok("txt")>> >>),
      Resp(TRUE,  << <<Tok("txt")>> >>),
      Resp(TRUE,  << >>) }

\* The text after the first token Tok("FA") of a text, stripped: "" when
\* nothing follows.
RECURSIVE AfterFA(_)
AfterFA(text) ==
    IF text = << >> THEN ""
    ELSE IF Head(text).k = "FA"
         THEN (IF Len(text) > 1 THEN "answer" ELSE "")
         ELSE AfterFA(Tail(text))

HasFA(text) == \E i \in 1..Len(text) : text[i].k = "FA"

\* ReActAgent._parse_action: <<action_type, final_answer, tool_params>>.
_parse_action(response) ==
    IF response.actions = << >> THEN <<"None", "None", "None">>
    ELSE LET action_text == Head(response.actions) IN
         IF Head(action_text).k \in {"FA", "fa"}
         THEN <<"final_answer", IF Len(action_text) > 1 THEN "answer" ELSE "", "None">>
         ELSE IF HasFA(action_text)
         THEN <<"final_answer", AfterFA(action_text), "None">>
         ELSE IF Head(action_text).k = "call"
         THEN <<Head(action_text).tool, "None", LoadParams(Head(action_text).params)>>
         ELSE <<"None", "None", "None">>

(***************************************************************************)
(* Chat contents, by what is_complex_task reads of them.                   *)
(***************************************************************************)
Content(empty, kw, words) == [empty |-> empty, keywords |-> kw, words |-> words]

Contents ==
    { Content(TRUE, 0, 0),        \* ""
      Content(FALSE, 0, 4),       \* a short question
      Content(FALSE, 2, 12),      \* two keywords
      Content(FALSE, 0, 31) }     \* a long request

is_complex_task(task) ==
    task.keywords >= KeywordThreshold \/ task.words > WordLimit

\* state["pending_task"] unset or None: falsy, as the empty string is.
NoTask == Content(TRUE, 0, 0)

(***************************************************************************)
(* Part I.  Tasks.  pc is the await a task is suspended at:                *)
(*   unborn        no task in this slot                                    *)
(*   created       asyncio.create_task(run_agent()) done, first step not   *)
(*                 yet taken                                               *)
(*   w_<x>         awaiting send_message(<x>), the LLM call (w_llm) or the *)
(*                 tool call (w_tool)                                      *)
(*   done          the task has finished                                   *)
(* An event is emitted when the send is started; the task is then          *)
(* suspended in it.                                                        *)
(***************************************************************************)
TerminalEvents == {"complete", "interrupted", "error"}

\* The (tool, params) pairs a response of the model can name, as
\* f"{action_type}:{action_payload}" identifies them.
Pairs == {<<"list_directory", "{}">>, <<"list_directory", "{p}">>}
NoAction == <<"None", "None">>

NewTask(kind) ==
    [pc |-> "created", kind |-> kind, cancelReq |-> FALSE, cancelled |-> FALSE,
     iteration |-> 0, is_complete |-> FALSE, final_answer |-> "",
     returned |-> FALSE, current_action |-> NoAction,
     dispatched |-> [a \in Pairs |-> 0], nFinal |-> 0, nTerm |-> 0]

NoTaskRec == [NewTask("chat") EXCEPT !.pc = "unborn"]

\* await send_message(websocket, ev, ...): emit ev, suspend at pc.
send_message(r, ev, pc) ==
    [r EXCEPT !.pc = pc,
              !.nFinal = IF ev = "final_answer" THEN @ + 1 ELSE @,
              !.nTerm = IF ev \in TerminalEvents THEN @ + 1 ELSE @]

\* AgentState.set_final_answer
set_final_answer(r, answer) ==
    [r EXCEPT !.final_answer = answer, !.is_complete = TRUE]

\* run_streaming returns to run_agent, which sends complete.
Returned(r) == send_message([r EXCEPT !.returned = TRUE], "complete", "w_complete")

\* run_streaming after its while loop (handler.py 406-418).
AfterLoop(r) ==
    IF ~r.is_complete /\ r.iteration >= max_iterations
    THEN send_message(set_final_answer(r, MaxIterMsg), "final_answer", "w_maxfinal")
    ELSE Returned(r)

\* The interrupt check of run_streaming (handler.py 270, 297, 326).
InterruptRequested(r, si) == r.cancelled \/ si

\* The head of the while loop (handler.py 269-279), up to the next await.
LoopTop(r, si) ==
    IF r.iteration < max_iterations /\ ~r.is_complete
    THEN IF InterruptRequested(r, si)
         THEN send_message(r, "interrupted", "w_intr_in")
         ELSE send_message([r EXCEPT !.iteration = @ + 1], "status", "w_thinking")
    ELSE AfterLoop(r)

\* Where a CancelledError thrown into the task at its await lands.
CancelledAt(r) ==
    LET c == [r EXCEPT !.cancelReq = FALSE] IN
    IF r.pc \in {"w_llm", "w_tool"}
    THEN send_message(c, "interrupted", "w_intr_in")       \* handler.py 291, 357
    ELSE send_message(c, "interrupted", "w_intr_outer")    \* handler.py 491, 536

\* A finished task: its agent, its loop counter and its action stream are
\* dropped; the result of the run and the events it emitted are kept.
Finished(r) ==
    [r EXCEPT !.pc = "done", !.cancelReq = FALSE, !.cancelled = FALSE,
              !.iteration = 0, !.current_action = NoAction,
              !.dispatched = [a \in Pairs |-> 0]]

\* The finally block of run_agent (handler.py 495-500 and 540-544).
RunAgentFinally(t) ==
    /\ is_processing' = FALSE
    /\ active_agent' = 0
    /\ current_task' = 0
    /\ IF tasks[t].kind = "chat"
       THEN /\ current_plan' = IF current_plan # NoPlan
                               THEN [current_plan EXCEPT !.status = "completed"]
                               ELSE current_plan
            /\ UNCHANGED pending_task
       ELSE /\ pending_task' = NoTask
            /\ UNCHANGED current_plan
    /\ tasks' = [tasks EXCEPT ![t] = Finished(@)]
    /\ UNCHANGED <<should_interrupt, max_iterations, run, fs, laterVars>>

ConnUnchanged == UNCHANGED <<is_processing, should_interrupt, current_plan,
                             pending_task, active_agent, current_task,
                             max_iterations, run, fs, laterVars>>

\* The first step of a task.  A task cancelled before its first step never
\* runs its coroutine body: the CancelledError is thrown into a coroutine
\* that has not entered its try statement.
RunAgentStart(t) ==
    /\ tasks[t].pc = "created"
    /\ tasks' = [tasks EXCEPT ![t] =
                    IF @.cancelReq
                    THEN Finished(@)
                    ELSE send_message(@, "status", "w_working")]
    /\ ConnUnchanged

\* run_agent after status working (and plan_started): run_streaming starts.
RunStreamingStart(t) ==
    /\ tasks[t].pc \in {"w_working", "w_plan_started"}
    /\ tasks' = [tasks EXCEPT ![t] =
                    IF @.cancelReq THEN CancelledAt(@)
                    ELSE IF @.pc = "w_working" /\ @.kind = "plan"
                    THEN send_message(@, "plan_started", "w_plan_started")
                    ELSE LoopTop([@ EXCEPT !.cancelled = FALSE], should_interrupt)]
    /\ ConnUnchanged

\* asyncio.wait_for(tool.execute(...)) starts (handler.py 350-353).
Dispatch(r) ==
    [r EXCEPT !.pc = "w_tool", !.dispatched[r.current_action] = @ + 1]

\* A send inside run_streaming returns and the run goes on to its next await.
SendReturns(t) ==
    /\ tasks[t].pc \in {"w_thinking", "w_intr_in", "w_timeout_err", "w_final",
                        "w_running", "w_completed", "w_failed", "w_maxfinal"}
    /\ tasks' = [tasks EXCEPT ![t] =
          IF @.cancelReq THEN CancelledAt(@)
          ELSE CASE @.pc = "w_thinking" -> [@ EXCEPT !.pc = "w_llm"]
                 [] @.pc = "w_intr_in" -> AfterLoop(set_final_answer(@, InterruptedMsg))
                 [] @.pc = "w_timeout_err" -> AfterLoop(set_final_answer(@, TimeoutMsg))
                 [] @.pc = "w_final" -> AfterLoop(@)
                 [] @.pc = "w_running" -> Dispatch(@)
                 [] @.pc \in {"w_completed", "w_failed"} -> LoopTop(@, should_interrupt)
                 [] @.pc = "w_maxfinal" -> Returned(@)]
    /\ ConnUnchanged

\* What the run does with an LLM response (handler.py 297-404).
OnResponse(r, response, si) ==
    LET parsed == _parse_action(response) IN
    IF InterruptRequested(r, si)
    THEN send_message(r, "interrupted", "w_intr_in")
    ELSE IF parsed[1] = "final_answer"
    THEN send_message(set_final_answer(r, parsed[2]), "final_answer", "w_final")
    ELSE IF parsed[1] \in RegisteredTools
    THEN IF InterruptRequested(r, si)
         THEN send_message(r, "interrupted", "w_intr_in")
         ELSE send_message([r EXCEPT !.current_action = <<parsed[1], parsed[3]>>],
                           "activity", "w_running")
    ELSE LoopTop(r, si)

\* The LLM call ends: with a response, with the 120 s timeout, or with an
\* exception of the client (handler.py 281-295, 493).
LlmReturns(t) ==
    /\ tasks[t].pc = "w_llm"
    /\ \/ /\ tasks[t].cancelReq
          /\ tasks' = [tasks EXCEPT ![t] = CancelledAt(@)]
       \/ /\ ~tasks[t].cancelReq
          /\ \/ tasks' = [tasks EXCEPT ![t] = send_message(@, "error", "w_timeout_err")]
             \/ tasks' = [tasks EXCEPT ![t] = send_message(@, "error", "w_err_outer")]
             \/ \E response \in Responses :
                  tasks' = [tasks EXCEPT ![t] = OnResponse(@, response, should_interrupt)]
    /\ ConnUnchanged

\* The tool call ends: with a result, with the 300 s timeout (a result
\* string), or with an exception (handler.py 350-396).
ToolReturns(t) ==
    /\ tasks[t].pc = "w_tool"
    /\ \/ /\ tasks[t].cancelReq
          /\ tasks' = [tasks EXCEPT ![t] = CancelledAt(@)]
       \/ /\ ~tasks[t].cancelReq
          /\ \/ tasks' = [tasks EXCEPT ![t] = send_message(@, "activity", "w_completed")]
             \/ tasks' = [tasks EXCEPT ![t] = send_message(@, "activity", "w_failed")]
    /\ ConnUnchanged

\* run_agent after run_streaming: the send of complete returns, or the send
\* in an except clause returns; then the finally block.
RunAgentFinish(t) ==
    /\ tasks[t].pc \in {"w_complete", "w_intr_outer", "w_err_outer"}
    /\ IF tasks[t].pc = "w_complete" /\ tasks[t].cancelReq
       THEN /\ tasks' = [tasks EXCEPT ![t] = CancelledAt(@)]
            /\ ConnUnchanged
       ELSE RunAgentFinally(t)

(***************************************************************************)
(* Part I.  Client messages (handle_websocket_message).                    *)
(***************************************************************************)
Live(t) == tasks[t].pc \notin {"unborn", "done"}
FreeSlots == {t \in TaskIds : ~Live(t)}
Lowest(S) == CHOOSE x \in S : \A y \in S : x <= y

\* asyncio.create_task(run_agent()) and the assignments around it.
CreateTask(kind) ==
    LET t == Lowest(FreeSlots) IN
    /\ tasks' = [tasks EXCEPT ![t] = NewTask(kind)]
    /\ active_agent' = t
    /\ current_task' = t

\* chat (handler.py 445-507).  planFails: generate_plan raises.
RecvChat(content, planFails) ==
    IF content.empty \/ is_processing
    THEN UNCHANGED vars
    ELSE IF is_complex_task(content) /\ current_plan = NoPlan
    THEN /\ is_processing' = FALSE
         /\ should_interrupt' = FALSE
         /\ IF planFails
            THEN UNCHANGED <<current_plan, pending_task>>
            ELSE /\ current_plan' = [status |-> "pending", title |-> "generated"]
                 /\ pending_task' = content
         /\ UNCHANGED <<active_agent, current_task, tasks, max_iterations, run, fs, laterVars>>
    ELSE /\ FreeSlots # {}
         /\ is_processing' = TRUE
         /\ should_interrupt' = FALSE
         /\ CreateTask("chat")
         /\ UNCHANGED <<current_plan, pending_task, max_iterations, run, fs, laterVars>>

\* approve_plan (handler.py 509-547).
RecvApprovePlan ==
    IF current_plan = NoPlan \/ pending_task = NoTask
    THEN UNCHANGED vars
    ELSE /\ FreeSlots # {}
         /\ current_plan' = [current_plan EXCEPT !.status = "approved"]
         /\ is_processing' = TRUE
         /\ CreateTask("plan")
         /\ UNCHANGED <<should_interrupt, pending_task, max_iterations, run, fs, laterVars>>

\* update_plan (handler.py 549-568).
RecvUpdatePlan(hasData) ==
    /\ current_plan' = IF hasData /\ current_plan # NoPlan
                       THEN [current_plan EXCEPT !.title = "edited"]
                       ELSE current_plan
    /\ UNCHANGED <<is_processing, should_interrupt, pending_task, active_agent,
                   current_task, tasks, max_iterations, run, fs, laterVars>>

\* interrupt (handler.py 570-581).
RecvInterrupt ==
    /\ should_interrupt' = TRUE
    /\ tasks' = [t \in TaskIds |->
                   [tasks[t] EXCEPT
                      !.cancelReq = IF t = current_task /\ tasks[t].pc # "done"
                                    THEN TRUE ELSE @,
                      !.cancelled = IF t = active_agent THEN TRUE ELSE @]]
    /\ UNCHANGED <<is_processing, current_plan, pending_task, active_agent,
                   current_task, max_iterations, run, fs, laterVars>>

\* suggestion (handler.py 583-593): the agent has no add_suggestion.
RecvSuggestion == UNCHANGED vars

WsInit(slots) ==
    /\ is_processing = FALSE
    /\ should_interrupt = FALSE
    /\ current_plan = NoPlan
    /\ pending_task = NoTask
    /\ active_agent = 0
    /\ current_task = 0
    /\ tasks = [t \in 1..slots |-> NoTaskRec]

RunIdle == run = "idle"
FsIdle == fs = "idle"
OrchIdle == orch = "idle"
RmIdle == rm = "idle"
CtxIdle == ctx = "idle"
PlanIdle == pplan = "idle"
ConnIdle == conn = "idle"
StreamIdle == stream = "idle"
MoreIdle == docker = "idle" /\ proj = "idle" /\ planner = "idle" /\ dlg = "idle" /\ hist = "idle"
LaterIdle == OrchIdle /\ RmIdle /\ CtxIdle /\ PlanIdle /\ ConnIdle /\ StreamIdle /\ MoreIdle

Init == /\ WsInit(MaxTasks) /\ max_iterations = ConcurrentIterations
        /\ RunIdle /\ FsIdle /\ LaterIdle

\* A connection on which at most one run exists at a time.
InitSolo == /\ WsInit(1) /\ max_iterations = MaxIterations
            /\ RunIdle /\ FsIdle /\ LaterIdle

Next ==
    \/ \E content \in Contents, planFails \in BOOLEAN : RecvChat(content, planFails)
    \/ RecvApprovePlan
    \/ \E hasData \in BOOLEAN : RecvUpdatePlan(hasData)
    \/ RecvInterrupt
    \/ RecvSuggestion
    \/ \E t \in TaskIds : RunAgentStart(t)
    \/ \E t \in TaskIds : RunStreamingStart(t)
    \/ \E t \in TaskIds : SendReturns(t)
    \/ \E t \in TaskIds : LlmReturns(t)
    \/ \E t \in TaskIds : ToolReturns(t)
    \/ \E t \in TaskIds : RunAgentFinish(t)

Spec == Init /\ [][Next]_vars

SpecSolo == InitSolo /\ [][Next]_vars


(***************************************************************************)
(* Part II.  The engine run ReActAgent.run (react_agent.py 99-255).        *)
(* pc is the await the run is suspended at:                                *)
(*   ready         run() has not been called                               *)
(*   llm           await self.llm.chat_completion(messages)       (127)    *)
(*   tool          await tool.execute(...)              (179)    *)
(*   recovery      await recovery_tool.execute(...)               (196)    *)
(*   retry         await tool.execute(...), the retry   (200)    *)
(*   recovery_exc  await recovery_tool.execute(...) in the except (227)    *)
(*   returned      run() has returned its AgentState                       *)
(*   raised        run() has ended with an exception                       *)
(***************************************************************************)
StopMsg == "Task stopped due to repeated actions. Last action: list_directory"

\* What a tool call ends with: a result text or an exception; of the text
\* (the result, or str(exc)) what ErrorPatterns.detect_error_type and the
\* test "Error" in result read.
Outcome(raises, has_Error, error_type) ==
    [raises |-> raises, has_Error |-> has_Error, error_type |-> error_type]

ToolResults ==
    { Outcome(FALSE, FALSE, "unknown"),             \* a listing
      Outcome(FALSE, TRUE,  "module_not_found"),    \* ModuleNotFoundError: No module named 'x'
      Outcome(FALSE, FALSE, "module_not_found"),    \* No module named 'x'
      Outcome(FALSE, TRUE,  "syntax_error"),        \* SyntaxError: invalid syntax
      Outcome(FALSE, TRUE,  "unknown") }            \* Error: something else

ToolExceptions ==
    { Outcome(TRUE, FALSE, "module_not_found"),     \* ImportError("No module named 'x'")
      Outcome(TRUE, FALSE, "unknown") }             \* any other exception

\* The texts RecoveryManager counts retries for: those of a known type.
ErrorTexts == {o \in ToolResults \cup ToolExceptions : o.error_type # "unknown"}

\* RecoveryStrategies.get_strategies: the action_type of each strategy.
get_strategies(error_type) ==
    CASE error_type = "module_not_found" ->
             <<"execute_command", "execute_command", "execute_command">>
      [] error_type = "syntax_error" -> <<"notify_user">>
      [] OTHER -> << >>

Min(a, b) == IF a < b THEN a ELSE b

\* RecoveryManager.analyze_error: <<action_type of the recovery action or
\* "None", _current_retries after the call>>.
analyze_error(retries, error_message) ==
    LET strategies == get_strategies(error_message.error_type) IN
    IF error_message.error_type = "unknown" THEN <<"None", retries>>
    ELSE IF retries[error_message] >= max_retries THEN <<"None", retries>>
    ELSE IF strategies = << >> THEN <<"None", retries>>
    ELSE <<strategies[Min(retries[error_message], Len(strategies) - 1) + 1],
           [retries EXCEPT ![error_message] = @ + 1]>>

NoEmission == [pair |-> NoAction, nth |-> 0, handling |-> "none"]

NewRun ==
    [pc |-> "ready", iteration |-> 0, is_complete |-> FALSE, final_answer |-> "",
     recent_actions |-> << >>, retries |-> [m \in ErrorTexts |-> 0],
     current_action |-> NoAction, dispatched |-> [a \in Pairs |-> 0],
     emission |-> NoEmission, last |-> [await |-> "none", raised |-> FALSE]]

\* The await that has just ended, and whether it ended with an exception.
Ended(r, raised) == [r EXCEPT !.last = [await |-> r.pc, raised |-> raised]]

\* How many times a occurs in seq (list.count).
RECURSIVE Count(_, _)
Count(seq, a) ==
    IF seq = << >> THEN 0
    ELSE (IF Head(seq) = a THEN 1 ELSE 0) + Count(Tail(seq), a)

\* After the while loop (react_agent.py 246-255).
RunAfterLoop(r) ==
    [(IF ~r.is_complete /\ r.iteration >= max_iterations
      THEN set_final_answer(r, MaxIterMsg) ELSE r)
     EXCEPT !.pc = "returned"]

\* The head of the while loop (react_agent.py 125-127).
RunLoopTop(r) ==
    IF r.iteration < max_iterations /\ ~r.is_complete
    THEN [r EXCEPT !.iteration = @ + 1, !.pc = "llm"]
    ELSE RunAfterLoop(r)

\* The emission of pair a, the nth in a row, and what the run did with it.
Emitted(r, a, handling) ==
    [r EXCEPT !.emission = [pair |-> a, handling |-> handling,
                            nth |-> IF r.emission.pair = a
                                    THEN r.emission.nth + 1 ELSE 1]]

\* A tool action (react_agent.py 148-179).
OnToolAction(r, a) ==
    LET repeat_count == Count(r.recent_actions, a)
        appended == Append(r.recent_actions, a)
    IN
    IF repeat_count >= max_repeated_actions
    THEN IF repeat_count >= max_repeated_actions + 1
         THEN RunAfterLoop(set_final_answer(Emitted(r, a, "stopped"), StopMsg))
         ELSE RunLoopTop(Emitted(r, a, "loop_detected"))
    ELSE [Emitted(r, a, "dispatched") EXCEPT
             !.recent_actions = IF Len(appended) > RecentWindow
                                THEN Tail(appended) ELSE appended,
             !.current_action = a,
             !.dispatched[a] = @ + 1,
             !.pc = "tool"]

\* What the run does with an LLM response (react_agent.py 129-165, 239-244).
OnEngineResponse(r, response) ==
    LET parsed == _parse_action(response) IN
    IF parsed[1] = "final_answer"
    THEN RunAfterLoop(set_final_answer([r EXCEPT !.emission = NoEmission], parsed[2]))
    ELSE IF parsed[1] \in RegisteredTools
    THEN OnToolAction(r, <<parsed[1], parsed[3]>>)
    ELSE RunLoopTop([r EXCEPT !.emission = NoEmission])

\* The except clause of the tool call (react_agent.py 210-237).
OnToolException(r, exc) ==
    LET ra == analyze_error(r.retries, exc)
        r1 == [r EXCEPT !.retries = ra[2]]
    IN
    IF ra[1] = "execute_command"
    THEN [r1 EXCEPT !.pc = "recovery_exc"]
    ELSE RunLoopTop(r1)

\* The result of the tool call (react_agent.py 181-208).
OnToolResult(r, result) ==
    IF result.error_type # "unknown" /\ result.has_Error
    THEN LET ra == analyze_error(r.retries, result)
             r1 == [r EXCEPT !.retries = ra[2]]
         IN
         IF ra[1] = "execute_command"
         THEN [r1 EXCEPT !.pc = "recovery"]
         ELSE RunLoopTop(r1)
    ELSE RunLoopTop(r)

RunUnchanged == UNCHANGED <<wsVars, max_iterations, fs, laterVars>>

\* run(task) is called: up to the first LLM call.
RunStart ==
    /\ run.pc = "ready"
    /\ run' = RunLoopTop(NewRun)
    /\ RunUnchanged

\* The LLM call returns a response.
RunLlmReturns(response) ==
    /\ run.pc = "llm"
    /\ run' = OnEngineResponse(Ended(run, FALSE), response)
    /\ RunUnchanged

\* The LLM call times out or fails: httpx raises, and run() has no handler
\* around the call (react_agent.py 127, llm_client.py 127-145).
RunLlmRaises ==
    /\ run.pc = "llm"
    /\ run' = [Ended(run, TRUE) EXCEPT !.pc = "raised"]
    /\ RunUnchanged

\* The tool call ends.
RunToolReturns(outcome) ==
    /\ run.pc = "tool"
    /\ run' = IF outcome.raises THEN OnToolException(Ended(run, TRUE), outcome)
                                ELSE OnToolResult(Ended(run, FALSE), outcome)
    /\ RunUnchanged

\* The recovery command ends (react_agent.py 196-200): the original tool is
\* executed again.
RunRecoveryReturns(outcome) ==
    /\ run.pc = "recovery"
    /\ run' = IF outcome.raises THEN OnToolException(Ended(run, TRUE), outcome)
              ELSE [Ended(run, FALSE) EXCEPT
                       !.pc = "retry", !.dispatched[run.current_action] = @ + 1]
    /\ RunUnchanged

\* The retry ends (react_agent.py 200-204).
RunRetryReturns(outcome) ==
    /\ run.pc = "retry"
    /\ run' = IF outcome.raises THEN OnToolException(Ended(run, TRUE), outcome)
                                ELSE RunLoopTop(Ended(run, FALSE))
    /\ RunUnchanged

\* The recovery command of the except clause ends, with a result or with an
\* exception (react_agent.py 224-231, 237).
RunRecoveryExcReturns(raised) ==
    /\ run.pc = "recovery_exc"
    /\ run' = RunLoopTop(Ended(run, raised))
    /\ RunUnchanged

InitRun == /\ WsInit(0) /\ max_iterations = MaxIterations
           /\ run = NewRun /\ FsIdle /\ LaterIdle

NextRun ==
    \/ RunStart
    \/ \E response \in Responses : RunLlmReturns(response)
    \/ RunLlmRaises
    \/ \E outcome \in ToolResults \cup ToolExceptions : RunToolReturns(outcome)
    \/ \E outcome \in ToolResults \cup ToolExceptions : RunRecoveryReturns(outcome)
    \/ \E outcome \in ToolResults \cup ToolExceptions : RunRetryReturns(outcome)
    \/ \E raised \in BOOLEAN : RunRecoveryExcReturns(raised)

SpecRun == InitRun /\ [][NextRun]_vars


(***************************************************************************)
(* Part III.  Workspace files and the file sets of the conversation        *)
(* context (file_tools.py, conversation_context.py, docker_context.py).    *)
(* A path is the string a tool is called with; two strings can name the    *)
(* same file.                                                              *)
(***************************************************************************)
PathStrings == {"a.txt", "./a.txt", "b.txt", "docs", "/etc/passwd", "../secret"}

\* Path.is_absolute() and, for an absolute path, relative_to(workspace_dir)
\* failing (docker_context.py 136-141).
OutsideWorkspace(file_path) == file_path = "/etc/passwd"

\* The file system object the returned path names: workspace_dir / path
\* for a relative path, with no normalisation (docker_context.py 142).
resolve_path(file_path) ==
    CASE file_path \in {"a.txt", "./a.txt"} -> "a"
      [] file_path = "b.txt" -> "b"
      [] file_path = "../secret" -> "secret"
      [] OTHER -> "docs"

\* The objects that lie inside workspace_dir; secret lies in its parent.
InsideWorkspace(path) == path \in {"a", "b", "docs"}

\* docs is a directory of the workspace; a and b are regular files when
\* they exist.
IsDirectory(path) == path = "docs"

ProtectedError == "Error: File is protected and cannot be deleted"
NotFoundError == "Error: File not found"
NotAFileError == "Error: Path is not a file"
DeleteError == "Error deleting file"
WriteError == "Error writing file"
Deleted == "File deleted successfully"
Written == "File written successfully"

NoOp == [op |-> "none", file_path |-> "", force |-> FALSE, result |-> ""]

NewFs == [disk |-> {}, created_files |-> {}, protected_files |-> {}, last |-> NoOp]

\* ConversationContext.is_protected
is_protected(f, file_path) == file_path \in f.protected_files

\* ConversationContext.register_file
register_file(f, file_path, auto_protect) ==
    [f EXCEPT !.created_files = @ \cup {file_path},
              !.protected_files = IF auto_protect THEN @ \cup {file_path} ELSE @]

\* ConversationContext.protect_file and unprotect_file
protect_file(f, file_path) ==
    [f EXCEPT !.protected_files = @ \cup {file_path}]
unprotect_file(f, file_path) ==
    [f EXCEPT !.protected_files = @ \ {file_path}]

Called(f, op, file_path, force, result) ==
    [f EXCEPT !.last = [op |-> op, file_path |-> file_path, force |-> force,
                        result |-> result]]

\* DeleteFileTool.execute with the protection check applied only to files
\* that do not exist.
delete_file_checks_late(f, file_path, force, save_fails) ==
    LET path == resolve_path(file_path)
        result(r) == Called(f, "delete_file", file_path, force, r)
    IN
    IF OutsideWorkspace(file_path) THEN result(DeleteError)
    ELSE IF path \notin f.disk /\ ~IsDirectory(path)
    THEN (IF ~force /\ is_protected(f, file_path)
          THEN result(ProtectedError) ELSE result(NotFoundError))
    ELSE IF IsDirectory(path) THEN result(NotAFileError)
    ELSE [result(IF save_fails THEN DeleteError ELSE Deleted) EXCEPT
             !.disk = @ \ {path},
             !.created_files = @ \ {file_path},
             !.protected_files = @ \ {file_path}]

\* DeleteFileTool.execute.  save_fails: conversation_context.save() raises.
delete_file(f, file_path, force, save_fails) ==
    LET path == resolve_path(file_path)
        result(r) == Called(f, "delete_file", file_path, force, r)
    IN
    IF ~force /\ is_protected(f, file_path) THEN result(ProtectedError)
    ELSE IF OutsideWorkspace(file_path) THEN result(DeleteError)
    ELSE IF path \notin f.disk /\ ~IsDirectory(path) THEN result(NotFoundError)
    ELSE IF IsDirectory(path) THEN result(NotAFileError)
    ELSE [result(IF save_fails THEN DeleteError ELSE Deleted) EXCEPT
             !.disk = @ \ {path},
             !.created_files = @ \ {file_path},
             !.protected_files = @ \ {file_path}]

\* WriteFileTool.execute
write_file(f, file_path) ==
    LET path == resolve_path(file_path)
        result(r) == Called(f, "write_file", file_path, FALSE, r)
    IN
    IF OutsideWorkspace(file_path) \/ IsDirectory(path) THEN result(WriteError)
    ELSE [register_file(result(Written), file_path, TRUE) EXCEPT
             !.disk = @ \cup {path}]

FsUnchanged == UNCHANGED <<wsVars, max_iterations, run, laterVars>>

\* DockerExecutionContext.resolve_path called on its own: it returns a path
\* or raises ValueError.
ResolvePath(file_path) ==
    /\ fs' = Called(fs, "resolve_path", file_path, FALSE,
                    IF OutsideWorkspace(file_path) THEN "ValueError" ELSE "returned")
    /\ FsUnchanged

DeleteFile(file_path, force, save_fails) ==
    /\ fs' = delete_file(fs, file_path, force, save_fails)
    /\ FsUnchanged

WriteFile(file_path) ==
    /\ fs' = write_file(fs, file_path)
    /\ FsUnchanged

ProtectFile(file_path) ==
    /\ fs' = Called(protect_file(fs, file_path), "protect_file", file_path, FALSE, "")
    /\ FsUnchanged

UnprotectFile(file_path) ==
    /\ fs' = Called(unprotect_file(fs, file_path), "unprotect_file", file_path, FALSE, "")
    /\ FsUnchanged

InitFiles == /\ WsInit(0) /\ max_iterations = MaxIterations
             /\ RunIdle /\ fs = NewFs /\ LaterIdle

NextFiles ==
    \/ \E file_path \in PathStrings, force \in BOOLEAN, save_fails \in BOOLEAN :
          DeleteFile(file_path, force, save_fails)
    \/ \E file_path \in PathStrings : WriteFile(file_path)
    \/ \E file_path \in PathStrings : ProtectFile(file_path)
    \/ \E file_path \in PathStrings : UnprotectFile(file_path)
    \/ \E file_path \in PathStrings : ResolvePath(file_path)

SpecFiles == InitFiles /\ [][NextFiles]_vars


(***************************************************************************)
(* Part IV.  Planned execution of the orchestrator                         *)
(* (orchestrator.py 184-340).  A plan is a sequence of steps; the id of a  *)
(* step is its position (PlanStep.id is 1-based).  pc:                     *)
(*   next     at the head of "for step in plan.steps"                      *)
(*   llm      await self.llm.chat_completion(messages)         (294)       *)
(*   tool     await tool.execute(...) and the validation      (490, 301)   *)
(*   done     _execute_planned has returned                                *)
(*   raised   _execute_planned has ended with an exception                 *)
(***************************************************************************)
MaxSteps == 3

\* The dependency lists of a step: none, earlier steps, the step itself or
\* a later one, and an id no step has.
DepSets == {{}, {1}, {2}, {3}, {1, 2}, {MaxSteps + 1}}

EstimatedIterations == {0, 1}

PlanStep(dependencies, estimated_iterations) ==
    [dependencies |-> dependencies, estimated_iterations |-> estimated_iterations]

Plans == [1..MaxSteps -> {PlanStep(d, e) : d \in DepSets, e \in EstimatedIterations}]

StepResult(step_id, success, iterations_used, validation_status, calls) ==
    [step_id |-> step_id, success |-> success, iterations_used |-> iterations_used,
     validation_status |-> validation_status, calls |-> calls]

\* ExecutionMode of the orchestrators that reach _execute_planned.
ExecutionModes == {"planned", "interactive"}

\* The orchestrator awaiting planner.create_plan (orchestrator.py 188).
\* pending_approval: plan_pending_approval has been notified; nothing in
\* the orchestrator receives an approval, so nothing clears it.
NewOrch(plan, mode) ==
    [plan |-> plan, mode |-> mode, step_results |-> << >>, pc |-> "planning",
     pending_approval |-> FALSE, iterations |-> 0, calls |-> 0, exc |-> "None"]

\* The step the for loop is at.
CurrentStep(o) == Len(o.step_results) + 1

\* dependencies_met (orchestrator.py 206-209) with every step_result
\* counted as a success.
dependencies_met_any_result(step, step_results) ==
    \A dep \in step.dependencies :
       \E k \in 1..Len(step_results) : step_results[k].step_id = dep

\* dependencies_met (orchestrator.py 206-209).
dependencies_met(step, step_results) ==
    \A dep \in step.dependencies :
       \E k \in 1..Len(step_results) :
          step_results[k].step_id = dep /\ step_results[k].success

\* _execute_step returns (orchestrator.py 334-340).
StepReturns(o, success) ==
    [o EXCEPT !.step_results =
                 Append(@, StepResult(CurrentStep(o), success, o.iterations,
                                      IF success THEN "valid" ELSE "invalid",
                                      o.calls)),
              !.pc = "next", !.iterations = 0, !.calls = 0]

\* The head of the while loop of _execute_step (orchestrator.py 282-294).
StepLoopTop(o) ==
    IF o.iterations < 2 * o.plan[CurrentStep(o)].estimated_iterations
    THEN [o EXCEPT !.iterations = @ + 1, !.calls = @ + 1, !.pc = "llm"]
    ELSE StepReturns(o, FALSE)

OrchUnchanged == UNCHANGED <<wsVars, max_iterations, run, fs, rm, ctx, pplan, conn, stream, moreVars>>

\* create_plan returns: plan_created and, in interactive mode,
\* plan_pending_approval are notified and the for loop is entered
\* (orchestrator.py 188-202).
OrchPlanCreated ==
    /\ orch.pc = "planning"
    /\ orch' = [orch EXCEPT !.pc = "next",
                            !.pending_approval = (orch.mode = "interactive")]
    /\ OrchUnchanged

\* One turn of "for step in plan.steps" up to its first await
\* (orchestrator.py 204-226, 260-280).
OrchNextStep ==
    /\ orch.pc = "next"
    /\ LET i == CurrentStep(orch) IN
       orch' = IF i > Len(orch.plan) THEN [orch EXCEPT !.pc = "done"]
               ELSE IF ~dependencies_met(orch.plan[i], orch.step_results)
                       /\ orch.plan[i].dependencies # {}
               THEN [orch EXCEPT !.step_results =
                        Append(@, StepResult(i, FALSE, 0, "skipped", 0))]
               ELSE StepLoopTop(orch)
    /\ OrchUnchanged

\* The LLM call of a step returns (orchestrator.py 294-295, 431-487):
\* no action, a final answer, a call of a registered tool, or a call of a
\* tool that is not registered (get_tool raises).
OrchLlmReturns(kind) ==
    /\ orch.pc = "llm"
    /\ orch' = CASE kind = "none" -> StepLoopTop(orch)
                 [] kind = "final" -> StepReturns(orch, TRUE)
                 [] kind = "tool" -> [orch EXCEPT !.pc = "tool", !.calls = @ + 1]
                 [] kind = "unknown_tool" ->
                        [orch EXCEPT !.pc = "raised", !.exc = "ValueError"]
    /\ OrchUnchanged

\* The LLM call of a step raises.
OrchLlmRaises ==
    /\ orch.pc = "llm"
    /\ orch' = [orch EXCEPT !.pc = "raised", !.exc = "httpx.HTTPError"]
    /\ OrchUnchanged

\* The tool call returns or raises and the result is validated
\* (orchestrator.py 297-332, 489-504); "none": no validation, params was empty.
OrchToolReturns(validation) ==
    /\ orch.pc = "tool"
    /\ orch' = IF validation = "valid" THEN StepReturns(orch, TRUE)
                                       ELSE StepLoopTop(orch)
    /\ OrchUnchanged

InitOrch == /\ WsInit(0) /\ max_iterations = MaxIterations
            /\ RunIdle /\ FsIdle
            /\ \E plan \in Plans, mode \in ExecutionModes : orch = NewOrch(plan, mode)
            /\ RmIdle /\ CtxIdle /\ PlanIdle /\ ConnIdle /\ StreamIdle /\ MoreIdle

NextOrch ==
    \/ OrchPlanCreated
    \/ OrchNextStep
    \/ \E kind \in {"none", "final", "tool", "unknown_tool"} : OrchLlmReturns(kind)
    \/ OrchLlmRaises
    \/ \E validation \in {"valid", "invalid", "warning", "none"} : OrchToolReturns(validation)

SpecOrch == InitOrch /\ [][NextOrch]_vars


(***************************************************************************)
(* Part V.  The RecoveryManager on its own (recovery.py 296-384): any      *)
(* sequence of analyze_error and reset calls.  An error message is the     *)
(* error pattern it matches (its error_type) followed by a tail of         *)
(* characters: nothing, a number, or a hexadecimal address.                *)
(***************************************************************************)
Digits == {"0", "1", "2", "4", "7"}
HexLetters == {"a", "b", "e", "f"}

Tails ==
    { << >>,
      <<"7">>, <<"4", "2">>,                              \* line 7, line 42
      <<"0", "x", "a", "f">>, <<"0", "x", "b", "e">>,     \* at 0xaf, at 0xbe
      <<"0", "x", "1", "2">> }                            \* at 0x12

ErrorMessage(error_type, tail) == [error_type |-> error_type, tail |-> tail]

ErrorMessages ==
    {ErrorMessage("module_not_found", t) : t \in Tails}
       \cup {ErrorMessage("syntax_error", << >>), ErrorMessage("unknown", << >>)}

\* re.sub(r'\d+', 'N', error): every maximal run of digits becomes N.
RECURSIVE SubDigits(_)
SubDigits(text) ==
    IF text = << >> THEN << >>
    ELSE IF Head(text) \in Digits
         THEN IF Len(text) > 1 /\ text[2] \in Digits
              THEN SubDigits(Tail(text))
              ELSE <<"N">> \o SubDigits(Tail(text))
         ELSE <<Head(text)>> \o SubDigits(Tail(text))

\* The text without its leading hexadecimal digits.
RECURSIVE DropHex(_)
DropHex(text) ==
    IF text # << >> /\ Head(text) \in Digits \cup HexLetters
    THEN DropHex(Tail(text)) ELSE text

\* re.sub(r'0x[a-fA-F0-9]+', 'ADDR', normalized)
RECURSIVE SubAddresses(_)
SubAddresses(text) ==
    IF text = << >> THEN << >>
    ELSE IF /\ Len(text) >= 3 /\ text[1] = "0" /\ text[2] = "x"
            /\ text[3] \in Digits \cup HexLetters
         THEN <<"ADDR">> \o SubAddresses(DropHex(Tail(Tail(text))))
         ELSE <<Head(text)>> \o SubAddresses(Tail(text))

\* RecoveryManager._hash_error: the key of the counter.  hash() is taken as
\* injective on the normalized texts; error_type is what detect_error_type
\* reads in the text.
_hash_error(error, action) ==
    [error_type |-> error.error_type, action |-> action,
     normalized |-> SubAddresses(SubDigits(error.tail))]

Actions == {"execute_command"}

ErrorKeys == {_hash_error(m, a) : m \in ErrorMessages, a \in Actions}

\* What an error message is a case of: its pattern with numbers and
\* addresses left out.
ErrorClass(error, action) ==
    [error_type |-> error.error_type, action |-> action,
     tail |-> IF error.tail = << >> THEN "none"
              ELSE IF Len(error.tail) >= 2 /\ error.tail[2] = "x" THEN "address"
              ELSE "number"]

ErrorClasses == {ErrorClass(m, a) : m \in ErrorMessages, a \in Actions}

NoCall == [error |-> ErrorMessage("unknown", << >>), action |-> "None",
           returned |-> "None", retries_before |-> 0]

\* RecoveryManager.__init__ and reset (recovery.py 299-307, 382-384).
\* granted counts, per class of error, the analyze_error calls since the
\* last reset that returned a recovery action.
NewRm ==
    [retries |-> [k \in ErrorKeys |-> 0],
     granted |-> [c \in ErrorClasses |-> 0],
     last |-> NoCall]

RmUnchanged == UNCHANGED <<wsVars, max_iterations, run, fs, orch, ctx, pplan, conn, stream, moreVars>>

\* analyze_error(error_message, action) is called (recovery.py 316-372).
AnalyzeError(error, action) ==
    LET key == _hash_error(error, action)
        ra == analyze_error(rm.retries, key)
    IN
    /\ rm' = [rm EXCEPT
                !.retries = ra[2],
                !.granted[ErrorClass(error, action)] =
                    IF ra[1] # "None" THEN @ + 1 ELSE @,
                !.last = [error |-> error, action |-> action, returned |-> ra[1],
                          retries_before |-> rm.retries[key]]]
    /\ RmUnchanged

\* reset() is called.
Reset ==
    /\ rm' = NewRm
    /\ RmUnchanged

InitRm == /\ WsInit(0) /\ max_iterations = MaxIterations
          /\ RunIdle /\ FsIdle /\ OrchIdle
          /\ rm = NewRm
          /\ CtxIdle /\ PlanIdle /\ ConnIdle /\ StreamIdle /\ MoreIdle

NextRm ==
    \/ \E error \in ErrorMessages, action \in Actions : AnalyzeError(error, action)
    \/ Reset

SpecRm == InitRm /\ [][NextRm]_vars


(***************************************************************************)
(* Part VI.  One conversation context and its context.json                 *)
(* (conversation_context.py).  A text is a sequence of characters, of      *)
(* which the quote "q", the backslash "b" and the newline "NL" are the     *)
(* ones json.dumps escapes.                                                *)
(***************************************************************************)
MaxClock == 4
MaxMessages == 2

Texts == { <<"h", "i">>, <<"q", "b", "n", "NL">> }
FileNames == {"a.txt", "b.txt"}

\* An encoder that leaves the backslash as it is.
RECURSIVE JsonEscape_keeps_backslash(_)
JsonEscape_keeps_backslash(text) ==
    IF text = << >> THEN << >>
    ELSE (CASE Head(text) = "q" -> <<"b", "q">>
            [] Head(text) = "NL" -> <<"b", "n">>
            [] OTHER -> <<Head(text)>>) \o JsonEscape_keeps_backslash(Tail(text))

\* json.dumps of a string, without the enclosing quotes.
RECURSIVE JsonEscape(_)
JsonEscape(text) ==
    IF text = << >> THEN << >>
    ELSE (CASE Head(text) = "q" -> <<"b", "q">>
            [] Head(text) = "b" -> <<"b", "b">>
            [] Head(text) = "NL" -> <<"b", "n">>
            [] OTHER -> <<Head(text)>>) \o JsonEscape(Tail(text))

\* json.loads of the inside of a string literal.
RECURSIVE JsonUnescape(_)
JsonUnescape(text) ==
    IF text = << >> THEN << >>
    ELSE IF Head(text) = "b" /\ Len(text) > 1
         THEN (CASE text[2] = "q" -> <<"q">>
                 [] text[2] = "b" -> <<"b">>
                 [] text[2] = "n" -> <<"NL">>
                 [] OTHER -> <<text[2]>>) \o JsonUnescape(Tail(Tail(text)))
         ELSE <<Head(text)>> \o JsonUnescape(Tail(text))

\* Message and Message.to_dict / from_dict with the JSON text in between.
Message(role, content, timestamp, react_steps) ==
    [role |-> role, content |-> content, timestamp |-> timestamp,
     react_steps |-> react_steps]

MessageToJson(msg) ==
    [role |-> msg.role, content |-> JsonEscape(msg.content),
     timestamp |-> msg.timestamp,
     react_steps |-> [k \in DOMAIN msg.react_steps |-> JsonEscape(msg.react_steps[k])]]

MessageFromJson(data) ==
    Message(data.role, JsonUnescape(data.content), data.timestamp,
            [k \in DOMAIN data.react_steps |-> JsonUnescape(data.react_steps[k])])

\* Output and Output.to_dict / from_dict.
\* The output file is named after the timestamp.
Output(task, result, timestamp, file_path) ==
    [task |-> task, result |-> result, timestamp |-> timestamp, file_path |-> file_path]

OutputToJson(out) ==
    [task |-> JsonEscape(out.task), result |-> JsonEscape(out.result),
     timestamp |-> out.timestamp, file_path |-> out.file_path]

OutputFromJson(data) ==
    Output(JsonUnescape(data.task), JsonUnescape(data.result), data.timestamp,
           data.file_path)

\* The lists list(a_set) can be: the elements in any order, each once.
ListsOf(S) ==
    {l \in UNION {[1..n -> S] : n \in {Cardinality(S)}} :
        \A e \in S : \E k \in DOMAIN l : l[k] = e}

SetOf(l) == {l[k] : k \in DOMAIN l}

\* ConversationContext.__init__ at time now.
NewContext(now) ==
    [metadata |-> [session_id |-> "s1", created_at |-> now, updated_at |-> now],
     message_history |-> << >>, created_files |-> {}, protected_files |-> {},
     outputs |-> << >>]

\* The context.json files save() can write for context c at time now.
ContextJson(c, now) ==
    {[metadata |-> [c.metadata EXCEPT !.updated_at = now],
      message_history |-> [k \in DOMAIN c.message_history |->
                              MessageToJson(c.message_history[k])],
      created_files |-> cf, protected_files |-> pf,
      outputs |-> [k \in DOMAIN c.outputs |-> OutputToJson(c.outputs[k])]] :
        cf \in ListsOf(c.created_files), pf \in ListsOf(c.protected_files)}

\* ConversationContext.load from a context.json.
ContextFromJson(data) ==
    [metadata |-> data.metadata,
     message_history |-> [k \in DOMAIN data.message_history |->
                             MessageFromJson(data.message_history[k])],
     created_files |-> SetOf(data.created_files),
     protected_files |-> SetOf(data.protected_files),
     outputs |-> [k \in DOMAIN data.outputs |-> OutputFromJson(data.outputs[k])]]

NewCtx(autosave) ==
    [now |-> 0, autosave |-> autosave, mem |-> NewContext(0),
     disk |-> [exists |-> FALSE], loaded |-> [returned |-> FALSE], ops |-> <<"init", "init">>]

CtxUnchanged == UNCHANGED <<wsVars, max_iterations, run, fs, orch, rm, pplan, conn, stream, moreVars>>

\* A call of the context at the next instant: it leaves the context c in
\* memory and, with save_now, ends with save().
CtxCall(op, c, save_now) ==
    /\ ctx.now < MaxClock
    /\ LET now == ctx.now + 1 IN
       IF save_now
       THEN \E data \in ContextJson(c, now) :
               ctx' = [ctx EXCEPT !.now = now,
                                  !.mem = [c EXCEPT !.metadata.updated_at = now],
                                  !.disk = [exists |-> TRUE, data |-> data],
                                  !.ops = <<ctx.ops[2], op>>]
       ELSE ctx' = [ctx EXCEPT !.now = now, !.mem = c, !.ops = <<ctx.ops[2], op>>]
    /\ CtxUnchanged

AddUserMessage(content) ==
    /\ Len(ctx.mem.message_history) < MaxMessages
    /\ CtxCall("add_user_message",
               [ctx.mem EXCEPT !.message_history =
                   Append(@, Message("user", content, ctx.now + 1, << >>))],
               ctx.autosave)

AddAssistantMessage(content, react_steps) ==
    /\ Len(ctx.mem.message_history) < MaxMessages
    /\ CtxCall("add_assistant_message",
               [ctx.mem EXCEPT !.message_history =
                   Append(@, Message("assistant", content, ctx.now + 1, react_steps))],
               ctx.autosave)

RegisterFile(file_path, auto_protect) ==
    /\ file_path \in FileNames
    /\ CtxCall("register_file", register_file(ctx.mem, file_path, auto_protect),
               ctx.autosave)

CtxProtectFile(file_path) ==
    /\ file_path \in FileNames
    /\ CtxCall("protect_file", protect_file(ctx.mem, file_path), FALSE)

CtxUnprotectFile(file_path) ==
    /\ file_path \in FileNames
    /\ CtxCall("unprotect_file", unprotect_file(ctx.mem, file_path), FALSE)

SaveOutput(result) ==
    /\ ctx.mem.outputs = << >>
    /\ CtxCall("save_output",
               [ctx.mem EXCEPT !.outputs = Append(@, Output(<<"h", "i">>, result, ctx.now + 1, ctx.now + 1))],
               ctx.autosave)

Save ==
    /\ ctx.now < MaxClock
    /\ CtxCall("save", ctx.mem, TRUE)

\* ConversationContext.load(session_id): FileNotFoundError without a
\* context.json.
Load ==
    /\ ctx.now < MaxClock
    /\ ctx' = [ctx EXCEPT !.now = @ + 1,
                          !.loaded =
                              IF ~ctx.disk.exists
                              THEN [returned |-> FALSE, raised |-> "FileNotFoundError"]
                              ELSE [returned |-> TRUE,
                                    context |-> ContextFromJson(ctx.disk.data)],
                          !.ops = <<ctx.ops[2], "load">>]
    /\ CtxUnchanged

InitCtx == /\ WsInit(0) /\ max_iterations = MaxIterations
           /\ RunIdle /\ FsIdle /\ OrchIdle /\ RmIdle
           /\ \E autosave \in BOOLEAN : ctx = NewCtx(autosave)
           /\ PlanIdle /\ ConnIdle /\ StreamIdle /\ MoreIdle

NextCtx ==
    \/ \E content \in Texts : AddUserMessage(content)
    \/ \E content \in Texts, react_steps \in {<< >>, << <<"q", "b">> >>} :
          AddAssistantMessage(content, react_steps)
    \/ \E file_path \in FileNames, auto_protect \in BOOLEAN :
          RegisterFile(file_path, auto_protect)
    \/ \E file_path \in FileNames : CtxProtectFile(file_path)
    \/ \E file_path \in FileNames : CtxUnprotectFile(file_path)
    \/ \E result \in Texts : SaveOutput(result)
    \/ Save
    \/ Load

SpecCtx == InitCtx /\ [][NextCtx]_vars


(***************************************************************************)
(* Part VII.  The editorial plan schema (planning/schema.py): plans,       *)
(* their dictionaries and the way back.  An enum member is the pair of     *)
(* its class and its value; a dictionary holds the value only.             *)
(***************************************************************************)
MaxPhases == 1
MaxPhaseTasks == 1

PlanStatusValues ==
    {"draft", "pending_approval", "approved", "in_progress", "paused",
     "completed", "failed"}
TaskStatusValues == {"pending", "in_progress", "completed", "skipped", "failed"}

PlanStatus(value) == [enum |-> "PlanStatus", value |-> value]
TaskStatus(value) == [enum |-> "TaskStatus", value |-> value]

Task(id, name, done_when, status, notes, output) ==
    [id |-> id, name |-> name, done_when |-> done_when, status |-> status,
     notes |-> notes, output |-> output]

Task_to_dict(task) ==
    [id |-> task.id, name |-> task.name, done_when |-> task.done_when,
     status |-> task.status.value, notes |-> task.notes, output |-> task.output]

\* A reader that gives every task the default status.
Task_from_dict_default_status(data) ==
    Task(data.id, data.name, data.done_when, TaskStatus("pending"), data.notes,
         data.output)

\* data.get(key, default) finds every key to_dict wrote.
Task_from_dict(data) ==
    Task(IF "id" \in DOMAIN data THEN data.id ELSE "uuid",
         data.name,
         IF "done_when" \in DOMAIN data THEN data.done_when ELSE "",
         TaskStatus(IF "status" \in DOMAIN data THEN data.status ELSE "pending"),
         IF "notes" \in DOMAIN data THEN data.notes ELSE "",
         IF "output" \in DOMAIN data THEN data.output ELSE "None")

Phase(id, name, objective, order, depends_on, phase_tasks) ==
    [id |-> id, name |-> name, objective |-> objective, order |-> order,
     depends_on |-> depends_on, tasks |-> phase_tasks]

\* Phase.status, derived from the tasks.
PhaseStatus(phase) ==
    LET statuses == {phase.tasks[k].status : k \in DOMAIN phase.tasks} IN
    IF phase.tasks = << >> THEN TaskStatus("pending")
    ELSE IF statuses = {TaskStatus("completed")} THEN TaskStatus("completed")
    ELSE IF TaskStatus("failed") \in statuses THEN TaskStatus("failed")
    ELSE IF TaskStatus("in_progress") \in statuses THEN TaskStatus("in_progress")
    ELSE TaskStatus("pending")

\* Phase.progress as the pair <<completed, all>>; <<0, 1>> without tasks.
PhaseProgress(phase) ==
    IF phase.tasks = << >> THEN <<0, 1>>
    ELSE <<Cardinality({k \in DOMAIN phase.tasks :
                          phase.tasks[k].status = TaskStatus("completed")}),
           Len(phase.tasks)>>

Phase_to_dict(phase) ==
    [id |-> phase.id, name |-> phase.name, objective |-> phase.objective,
     order |-> phase.order, depends_on |-> phase.depends_on,
     tasks |-> [k \in DOMAIN phase.tasks |-> Task_to_dict(phase.tasks[k])],
     status |-> PhaseStatus(phase).value, progress |-> PhaseProgress(phase)]

Phase_from_dict(data) ==
    Phase(IF "id" \in DOMAIN data THEN data.id ELSE "uuid",
          data.name,
          IF "objective" \in DOMAIN data THEN data.objective ELSE "",
          IF "order" \in DOMAIN data THEN data.order ELSE 0,
          IF "depends_on" \in DOMAIN data THEN data.depends_on ELSE << >>,
          IF "tasks" \in DOMAIN data
          THEN [k \in DOMAIN data.tasks |-> Task_from_dict(data.tasks[k])]
          ELSE << >>)

Deliverable(id, name, format, description) ==
    [id |-> id, name |-> name, format |-> format, description |-> description]

Deliverable_to_dict(d) ==
    [id |-> d.id, name |-> d.name, format |-> d.format, description |-> d.description]

Deliverable_from_dict(data) ==
    Deliverable(IF "id" \in DOMAIN data THEN data.id ELSE "uuid",
                data.name,
                IF "format" \in DOMAIN data THEN data.format ELSE "",
                IF "description" \in DOMAIN data THEN data.description ELSE "")

ProjectPlan(id, title, objective, status, deliverables, phases, user_modified) ==
    [id |-> id, title |-> title, objective |-> objective,
     original_request |-> "request", status |-> status, deadline |-> "None",
     constraints |-> << >>, resources_provided |-> << >>,
     deliverables |-> deliverables, phases |-> phases, created_at |-> 0,
     user_modified |-> user_modified]

RECURSIVE SumSeq(_)
SumSeq(q) == IF q = << >> THEN 0 ELSE Head(q) + SumSeq(Tail(q))

TotalTasks(plan) == SumSeq([k \in DOMAIN plan.phases |-> Len(plan.phases[k].tasks)])

CompletedTasks(plan) ==
    SumSeq([k \in DOMAIN plan.phases |-> PhaseProgress(plan.phases[k])[1]])

ProjectPlan_to_dict(plan) ==
    [id |-> plan.id, title |-> plan.title, objective |-> plan.objective,
     original_request |-> plan.original_request, status |-> plan.status.value,
     deadline |-> plan.deadline, constraints |-> plan.constraints,
     resources_provided |-> plan.resources_provided,
     deliverables |-> [k \in DOMAIN plan.deliverables |->
                          Deliverable_to_dict(plan.deliverables[k])],
     phases |-> [k \in DOMAIN plan.phases |-> Phase_to_dict(plan.phases[k])],
     total_tasks |-> TotalTasks(plan), completed_tasks |-> CompletedTasks(plan),
     progress |-> <<CompletedTasks(plan),
                    IF TotalTasks(plan) = 0 THEN 1 ELSE TotalTasks(plan)>>,
     created_at |-> plan.created_at, user_modified |-> plan.user_modified]

ProjectPlan_from_dict(data) ==
    [id |-> IF "id" \in DOMAIN data THEN data.id ELSE "uuid",
     title |-> data.title,
     objective |-> IF "objective" \in DOMAIN data THEN data.objective ELSE "",
     original_request |->
         IF "original_request" \in DOMAIN data THEN data.original_request ELSE "",
     status |-> PlanStatus(IF "status" \in DOMAIN data THEN data.status ELSE "draft"),
     deadline |-> IF "deadline" \in DOMAIN data THEN data.deadline ELSE "None",
     constraints |-> IF "constraints" \in DOMAIN data THEN data.constraints ELSE << >>,
     resources_provided |->
         IF "resources_provided" \in DOMAIN data THEN data.resources_provided ELSE << >>,
     deliverables |->
         IF "deliverables" \in DOMAIN data
         THEN [k \in DOMAIN data.deliverables |->
                  Deliverable_from_dict(data.deliverables[k])]
         ELSE << >>,
     phases |-> IF "phases" \in DOMAIN data
                THEN [k \in DOMAIN data.phases |-> Phase_from_dict(data.phases[k])]
                ELSE << >>,
     created_at |-> IF "created_at" \in DOMAIN data THEN data.created_at ELSE 1,
     user_modified |->
         IF "user_modified" \in DOMAIN data THEN data.user_modified ELSE FALSE]

SeqsUpTo(S, n) == UNION {[1..k -> S] : k \in 0..n}

SchemaTasks ==
    {Task("t1", "write", done_when, TaskStatus(value), "", "None") :
        done_when \in {"", "reviewed"}, value \in TaskStatusValues}

SchemaPhases ==
    {Phase("p1", "draft", "objective", order, << >>, phase_tasks) :
        order \in {0, 1}, phase_tasks \in SeqsUpTo(SchemaTasks, MaxPhaseTasks)}

SchemaPlans ==
    {ProjectPlan("plan1", "Report", "objective", PlanStatus(value), deliverables,
                 phases, FALSE) :
        value \in {"draft", "approved", "in_progress"},
        deliverables \in {<< >>, <<Deliverable("d1", "report", "pdf", "")>>},
        phases \in SeqsUpTo(SchemaPhases, MaxPhases)}

PlanUnchanged == UNCHANGED <<wsVars, max_iterations, run, fs, orch, rm, ctx, conn, stream, moreVars>>

\* plan.to_dict()
ToDict ==
    /\ pplan.pc = "plan"
    /\ pplan' = [pplan EXCEPT !.pc = "dict", !.data = ProjectPlan_to_dict(pplan.plan)]
    /\ PlanUnchanged

\* ProjectPlan.from_dict(data)
FromDict ==
    /\ pplan.pc = "dict"
    /\ pplan' = [pplan EXCEPT !.pc = "restored",
                              !.restored = ProjectPlan_from_dict(pplan.data)]
    /\ PlanUnchanged

InitSchema == /\ WsInit(0) /\ max_iterations = MaxIterations
              /\ RunIdle /\ FsIdle /\ OrchIdle /\ RmIdle /\ CtxIdle
              /\ \E plan \in SchemaPlans :
                    pplan = [pc |-> "plan", plan |-> plan, data |-> << >>,
                             restored |-> << >>]
              /\ ConnIdle /\ StreamIdle /\ MoreIdle

NextSchema == ToDict \/ FromDict

SpecSchema == InitSchema /\ [][NextSchema]_vars


(***************************************************************************)
(* Part VIII.  Connections of the chat endpoint (routes/chat.py) with the  *)
(* sessions, the registry active_connections and the sandbox containers    *)
(* they share.  A container is named after its session id; the registry    *)
(* and the container table hold the number of the connection whose         *)
(* session owns the entry, 0 for none.                                     *)
(***************************************************************************)
NConns == 2
MaxReceived == 2

ConnIds == 1..NConns
StoredSessions == {"s1"}
FreshId(k) == CASE k = 1 -> "n1" [] k = 2 -> "n2" [] OTHER -> "n3"
SessionIds == StoredSessions \cup {FreshId(k) : k \in ConnIds}
MsgTypes == {"chat", "request_plan", "interrupt"}
AgentRunning == {"status", "llm", "thought", "tool", "activity"}

NewConn(session_id) ==
    [pc |-> "new", session_id |-> session_id, actual_session_id |-> session_id,
     session_initialized |-> FALSE, session |-> "None", closed_by |-> 0,
     container |-> FALSE, agent |-> "none", agent_msg |-> 0, sent |-> << >>,
     received |-> 0, types |-> << >>, creations |-> 0, pending |-> "None", target |-> "None",
     bind_msg |-> 0, docker_failed |-> FALSE]

\* send_message on connection record c, answering message number msg.
Sent(c, ev, msg) == [c EXCEPT !.sent = Append(@, [ev |-> ev, msg |-> msg])]

\* A binder that starts the session on any first message.
NeedsBind_any_type(c, type) == ~c.session_initialized

\* chat.py line 54
NeedsBind(c, type) == type \in {"chat", "request_plan"} /\ ~c.session_initialized

\* The session create_session_with_tools gives: the stored one when the
\* path names a session that exists, a new one otherwise.
TargetSession(k) ==
    IF conn.c[k].session_id # "None" /\ conn.c[k].session_id \in conn.exists
    THEN conn.c[k].session_id
    ELSE FreshId(k)

ConnsUnchanged == UNCHANGED <<wsVars, max_iterations, run, fs, orch, rm, ctx, pplan, stream, moreVars>>

\* websocket.accept() and the connected event.
Accept(k) ==
    /\ conn.c[k].pc = "new"
    /\ conn' = [conn EXCEPT !.c[k] = Sent([@ EXCEPT !.pc = "loop"], "connected", 0)]
    /\ ConnsUnchanged

\* The finally clause of websocket_chat, run by connection k whose record
\* has become c.
Cleanup(k, c) ==
    LET id == c.actual_session_id
        registered == id # "None" /\ conn.active_connections[id] # 0
        owner == conn.active_connections[id]
        rec == [j \in ConnIds |-> IF j = k THEN [c EXCEPT !.pc = "closed"]
                                  ELSE conn.c[j]]
    IN
    IF ~registered
    THEN conn' = [conn EXCEPT !.c = rec]
    ELSE IF rec[owner].session = "None"
    THEN conn' = [conn EXCEPT !.c = rec, !.active_connections[id] = 0]
    ELSE LET sid == rec[owner].session IN
         conn' = [conn EXCEPT
                    !.c = [rec EXCEPT ![owner].closed_by = k,
                                      ![owner].container = FALSE],
                    !.containers[sid] =
                        IF rec[owner].container /\ @ = owner THEN 0 ELSE @,
                    !.active_connections[id] = 0]

\* handle_websocket_message for message number n of the given type.
Handle(c, type, n) ==
    CASE type = "chat" ->
            IF c.agent \in AgentRunning THEN Sent(c, "error", n)
            ELSE [c EXCEPT !.agent = "status", !.agent_msg = n]
      [] type = "interrupt" ->
            Sent([c EXCEPT !.agent = IF @ \in AgentRunning THEN "cancelled" ELSE @],
                 "interrupting", n)
      [] OTHER -> Sent(c, "error", n)

\* A message arrives on a connection that has no session yet.  A first
\* chat or request_plan starts create_session_with_tools, up to the sleep
\* in DockerExecutionContext.start or to the RuntimeError of a Docker that
\* cannot be reached; any other type is answered with an error.
RecvUnbound(k, type, docker_fails) ==
    LET c == conn.c[k]
        n == c.received + 1 IN
    /\ c.pc = "loop" /\ ~c.session_initialized /\ c.received < MaxReceived
    /\ IF NeedsBind(c, type)
       THEN LET c1 == Sent([c EXCEPT !.received = n, !.types = Append(@, type),
                                     !.creations = @ + 1, !.bind_msg = n],
                           "initializing", n) IN
            IF docker_fails
            THEN Cleanup(k, Sent([c1 EXCEPT !.docker_failed = TRUE], "error", n))
            ELSE conn' = [conn EXCEPT
                            !.c[k] = [c1 EXCEPT !.pc = "binding", !.pending = type,
                                                !.target = TargetSession(k),
                                                !.container = TRUE],
                            !.containers[TargetSession(k)] = k,
                            !.exists = @ \cup {TargetSession(k)}]
       ELSE /\ ~docker_fails
            /\ conn' = [conn EXCEPT !.c[k] =
                  Sent([c EXCEPT !.received = n, !.types = Append(@, type)], "error", n)]
    /\ ConnsUnchanged

\* create_session_with_tools returns: the session is stored and registered,
\* session_ready is sent and the message is handled.  With client_gone the
\* send fails and the finally clause runs.
BindFinish(k, client_gone) ==
    LET c == conn.c[k]
        bound == [c EXCEPT !.pc = "loop", !.actual_session_id = c.target,
                           !.session = c.target, !.session_initialized = TRUE,
                           !.pending = "None"] IN
    /\ c.pc = "binding"
    /\ IF client_gone
       THEN \* the registry entry is written before the send that fails, and
            \* the finally clause finds it
            conn' = [conn EXCEPT
                       !.c[k] = [bound EXCEPT !.pc = "closed", !.closed_by = k,
                                              !.container = FALSE],
                       !.containers[c.target] = IF @ = k THEN 0 ELSE @,
                       !.active_connections[c.target] = 0]
       ELSE conn' = [conn EXCEPT
                       !.c[k] = Handle(Sent(bound, "session_ready", c.bind_msg),
                                       c.pending, c.bind_msg),
                       !.active_connections[c.target] = k]
    /\ ConnsUnchanged

\* A message arrives on a connection that has its session.
RecvBound(k, type) ==
    LET c == conn.c[k]
        n == c.received + 1 IN
    /\ c.pc = "loop" /\ c.session_initialized /\ c.received < MaxReceived
    /\ conn' = [conn EXCEPT !.c[k] =
          Handle([c EXCEPT !.received = n, !.types = Append(@, type)], type, n)]
    /\ ConnsUnchanged

\* receive_text raises WebSocketDisconnect.
Disconnect(k) ==
    /\ conn.c[k].pc = "loop"
    /\ Cleanup(k, conn.c[k])
    /\ ConnsUnchanged

\* The agent task is at a send_message: on a closed socket the send raises
\* and the task ends, otherwise the task goes on to what follows the event.
AgentSend(k, done) ==
    LET c == conn.c[k] IN
    /\ c.agent \in {"status", "thought", "activity"}
    /\ c.agent = "status" => ~done
    /\ c.agent = "activity" => done
    /\ conn' = [conn EXCEPT !.c[k] =
          IF c.pc = "closed" THEN [c EXCEPT !.agent = "failed"]
          ELSE IF done THEN Sent([c EXCEPT !.agent = "done"], "complete", c.agent_msg)
          ELSE Sent([c EXCEPT !.agent = IF c.agent = "status" THEN "llm" ELSE "tool"],
                    c.agent, c.agent_msg)]
    /\ ConnsUnchanged

\* The LLM call of the agent task returns.
AgentLlmReturns(k) ==
    /\ conn.c[k].agent = "llm"
    /\ conn' = [conn EXCEPT !.c[k].agent = "thought"]
    /\ ConnsUnchanged

\* The tool of the agent task returns.
AgentToolReturns(k) ==
    /\ conn.c[k].agent = "tool"
    /\ conn' = [conn EXCEPT !.c[k].agent = "activity"]
    /\ ConnsUnchanged

\* The cancelled task reaches its CancelledError handler.
AgentCancelled(k) ==
    /\ conn.c[k].agent = "cancelled"
    /\ conn' = [conn EXCEPT !.c[k] =
          IF conn.c[k].pc = "closed" THEN [@ EXCEPT !.agent = "failed"]
          ELSE Sent([@ EXCEPT !.agent = "done"], "interrupted", @.agent_msg)]
    /\ ConnsUnchanged

InitConns ==
    /\ WsInit(0) /\ max_iterations = MaxIterations
    /\ RunIdle /\ FsIdle /\ OrchIdle /\ RmIdle /\ CtxIdle /\ PlanIdle /\ StreamIdle /\ MoreIdle
    /\ \E ids \in [ConnIds -> {"None"} \cup StoredSessions] :
          conn = [c |-> [k \in ConnIds |-> NewConn(ids[k])],
                  active_connections |-> [id \in SessionIds |-> 0],
                  containers |-> [id \in SessionIds |-> 0],
                  exists |-> StoredSessions]

NextConns ==
    \E k \in ConnIds :
       \/ Accept(k)
       \/ \E type \in MsgTypes, docker_fails \in BOOLEAN : RecvUnbound(k, type, docker_fails)
       \/ \E client_gone \in BOOLEAN : BindFinish(k, client_gone)
       \/ \E type \in MsgTypes : RecvBound(k, type)
       \/ Disconnect(k)
       \/ \E done \in BOOLEAN : AgentSend(k, done)
       \/ AgentLlmReturns(k)
       \/ AgentToolReturns(k)
       \/ AgentCancelled(k)

SpecConns == InitConns /\ [][NextConns]_vars


(***************************************************************************)
(* Part IX.  One run_agent() task of a connection, from its creation by    *)
(* the chat or approve_plan handler to its end, with every event the       *)
(* client receives (handler.py 240-418, 486-503, 530-547) and the client   *)
(* messages that arrive meanwhile (handler.py 549-597).  pc is the await   *)
(* the task is suspended at, as in Part I.                                 *)
(***************************************************************************)
StreamIterations == 2
MaxClientMsgs == 1

ToolTimeoutMsg == "Tool X timed out after 5 minutes"
InvalidActionMsg == "Invalid action format."
ControlTypes ==
    {"suggestion", "interrupt", "update_plan", "pause_execution", "resume_execution"}

NoResponse == Resp(FALSE, << >>)

Event(ev, status, it, src) == [ev |-> ev, status |-> status, it |-> it, src |-> src]

NewStream(kind) ==
    [pc |-> "created", kind |-> kind, is_processing |-> TRUE,
     cancelReq |-> FALSE, cancelled |-> FALSE, interrupt |-> FALSE,
     iteration |-> 0, is_complete |-> FALSE, final_answer |-> "",
     returned |-> FALSE, events |-> << >>, observation |-> "",
     has_response |-> FALSE, response |-> NoResponse, dispatched |-> 0,
     llm_timeout_at |-> 0, tool_outcome |-> "none", tool_timeouts |-> 0,
     intr_after_parse |-> FALSE, nmsgs |-> 0,
     last_msg |-> [type |-> "none", processing |-> FALSE, reply |-> "None"]]

\* await send_message(websocket, ev, status=...) by the task: the event is
\* emitted and the task is suspended at pc.
Emit(r, ev, status, pc) ==
    [r EXCEPT !.pc = pc, !.events = Append(@, Event(ev, status, r.iteration, "task"))]

\* AgentState.set_final_answer
SetFinal(r, answer) == [r EXCEPT !.final_answer = answer, !.is_complete = TRUE]

\* run_streaming returns (handler.py 412-418) and run_agent sends complete.
StreamReturned(r) == Emit([r EXCEPT !.returned = TRUE], "complete", "", "w_complete")

\* run_streaming after its while loop (handler.py 406-410).
StreamAfterLoop(r) ==
    IF ~r.is_complete /\ r.iteration >= max_iterations
    THEN Emit(SetFinal(r, MaxIterMsg), "final_answer", "", "w_maxfinal")
    ELSE StreamReturned(r)

\* The head of the while loop (handler.py 269-279).
StreamLoopTop(r) ==
    LET c == [r EXCEPT !.has_response = FALSE, !.response = NoResponse,
                       !.tool_outcome = "none"] IN
    IF c.iteration < max_iterations /\ ~c.is_complete
    THEN IF c.cancelled \/ c.interrupt
         THEN Emit(c, "interrupted", "", "w_intr_in")
         ELSE Emit([c EXCEPT !.iteration = @ + 1], "status", "thinking", "w_thinking")
    ELSE StreamAfterLoop(c)

\* Where the CancelledError of task.cancel() lands: in the except clauses
\* of run_streaming around the two wait_for calls (handler.py 291, 357),
\* or in the except clause of run_agent (491, 536).
StreamCancelledAt(r) ==
    LET c == [r EXCEPT !.cancelReq = FALSE] IN
    IF r.pc \in {"w_llm", "w_tool"}
    THEN Emit(c, "interrupted", "", "w_intr_in")
    ELSE Emit(c, "interrupted", "", "w_intr_outer")

\* A tool timeout that ends the run with an error.
ToolTimedOut_terminates(r) ==
    Emit(SetFinal([r EXCEPT !.tool_outcome = "timeout", !.tool_timeouts = @ + 1],
                  ToolTimeoutMsg),
         "error", "", "w_timeout_err")

\* asyncio.TimeoutError of the tool's wait_for (handler.py 355-356, 363-381).
ToolTimedOut(r) ==
    Emit([r EXCEPT !.tool_outcome = "timeout", !.tool_timeouts = @ + 1,
                   !.observation = ToolTimeoutMsg],
         "activity", "completed", "w_completed")

\* What the run does with an LLM response (handler.py 297-404).  The
\* thought is kept in the AgentState, the messages and react_steps; no
\* event carries it.
StreamOnResponse(r, response) ==
    LET parsed == _parse_action(response)
        c == [r EXCEPT !.has_response = TRUE, !.response = response] IN
    IF c.cancelled \/ c.interrupt
    THEN Emit(c, "interrupted", "", "w_intr_in")
    ELSE IF parsed[1] = "final_answer"
    THEN Emit(SetFinal(c, parsed[2]), "final_answer", "", "w_final")
    ELSE IF parsed[1] \in RegisteredTools
    THEN IF c.cancelled \/ c.interrupt
         THEN Emit(c, "interrupted", "", "w_intr_in")
         ELSE Emit(c, "activity", "running", "w_running")
    ELSE StreamLoopTop([c EXCEPT !.observation = InvalidActionMsg])

\* The finally block of run_agent.
StreamFinally(r) == [r EXCEPT !.pc = "done", !.is_processing = FALSE, !.cancelReq = FALSE]

StreamUnchanged ==
    UNCHANGED <<wsVars, max_iterations, run, fs, orch, rm, ctx, pplan, conn, moreVars>>

\* The first step of the task; a task cancelled before it never runs.
StreamStart ==
    /\ stream.pc = "created"
    /\ stream' = IF stream.cancelReq
                 THEN [stream EXCEPT !.pc = "done", !.cancelReq = FALSE]
                 ELSE Emit(stream, "status", "working", "w_working")
    /\ StreamUnchanged

\* A send of the task returns and the task runs to its next await.
StreamSendReturns ==
    /\ stream.pc \in {"w_working", "w_plan_started", "w_thinking", "w_intr_in",
                      "w_timeout_err", "w_final", "w_running", "w_completed",
                      "w_failed", "w_maxfinal"}
    /\ stream' =
          IF stream.cancelReq THEN StreamCancelledAt(stream)
          ELSE CASE stream.pc = "w_working" /\ stream.kind = "plan" ->
                       Emit(stream, "plan_started", "", "w_plan_started")
                 [] stream.pc \in {"w_working", "w_plan_started"} ->
                       StreamLoopTop([stream EXCEPT !.cancelled = FALSE])
                 [] stream.pc = "w_thinking" -> [stream EXCEPT !.pc = "w_llm"]
                 [] stream.pc = "w_intr_in" ->
                       StreamAfterLoop(SetFinal(stream, InterruptedMsg))
                 [] stream.pc = "w_timeout_err" ->
                       StreamAfterLoop(SetFinal(stream, TimeoutMsg))
                 [] stream.pc = "w_final" -> StreamAfterLoop(stream)
                 [] stream.pc = "w_running" ->
                       [stream EXCEPT !.pc = "w_tool", !.dispatched = @ + 1]
                 [] stream.pc \in {"w_completed", "w_failed"} -> StreamLoopTop(stream)
                 [] stream.pc = "w_maxfinal" -> StreamReturned(stream)
    /\ StreamUnchanged

\* The LLM call returns a response.
StreamLlmResponds(response) ==
    /\ stream.pc = "w_llm"
    /\ stream' = IF stream.cancelReq THEN StreamCancelledAt(stream)
                 ELSE StreamOnResponse(stream, response)
    /\ StreamUnchanged

\* The wait_for of the LLM call times out after 120 s (handler.py 286-290).
StreamLlmTimesOut ==
    /\ stream.pc = "w_llm" /\ ~stream.cancelReq
    /\ stream' = Emit([stream EXCEPT !.llm_timeout_at = stream.iteration],
                      "error", "LLM timeout", "w_timeout_err")
    /\ StreamUnchanged

\* The LLM client raises: the exception leaves run_streaming and run_agent
\* sends an error (handler.py 493-494).
StreamLlmRaises ==
    /\ stream.pc = "w_llm" /\ ~stream.cancelReq
    /\ stream' = Emit(stream, "error", "exception", "w_err_outer")
    /\ StreamUnchanged

\* The tool call ends: with a result, with the 300 s timeout, or with an
\* exception (handler.py 350-396).
StreamToolReturns(outcome) ==
    /\ stream.pc = "w_tool"
    /\ stream' =
          IF stream.cancelReq THEN StreamCancelledAt(stream)
          ELSE CASE outcome = "result" ->
                       Emit([stream EXCEPT !.tool_outcome = "result",
                                           !.observation = "result"],
                            "activity", "completed", "w_completed")
                 [] outcome = "timeout" -> ToolTimedOut(stream)
                 [] outcome = "exception" ->
                       Emit([stream EXCEPT !.tool_outcome = "exception",
                                           !.observation = "Error executing"],
                            "activity", "failed", "w_failed")
    /\ StreamUnchanged

\* The send of run_agent returns (complete, or the event of an except
\* clause), then the finally block.  A cancellation delivered at the send
\* of complete is caught by the except clause of run_agent.
StreamFinish ==
    /\ stream.pc \in {"w_complete", "w_intr_outer", "w_err_outer"}
    /\ stream' = IF stream.pc = "w_complete" /\ stream.cancelReq
                 THEN StreamCancelledAt(stream)
                 ELSE StreamFinally(stream)
    /\ StreamUnchanged

\* The reply of handle_websocket_message to a message that is not chat or
\* approve_plan, "None" when it sends nothing (handler.py 549-597).  The
\* agent is a StreamingReActAgent, which has no add_suggestion.
ControlReply(r, type, has_data) ==
    CASE type = "interrupt" -> "interrupting"
      [] type = "suggestion" -> "None"
      [] type = "update_plan" ->
            IF ~has_data THEN "error"
            ELSE IF r.kind = "plan" THEN "plan_updated" ELSE "None"
      [] OTHER -> "error"

\* A client message arrives while the task exists.
RecvControl(type, has_data) ==
    /\ stream.nmsgs < MaxClientMsgs
    /\ type # "update_plan" => has_data
    /\ LET reply == ControlReply(stream, type, has_data)
           r1 == [stream EXCEPT
                    !.nmsgs = @ + 1,
                    !.last_msg = [type |-> type, processing |-> stream.is_processing,
                                  reply |-> reply],
                    !.events = IF reply = "None" THEN @
                               ELSE Append(@, Event(reply, "", stream.iteration, "handler"))]
       IN
       stream' = IF type = "interrupt"
                 THEN [r1 EXCEPT !.interrupt = TRUE,
                                 !.cancelReq = (stream.pc # "done"),
                                 !.cancelled = IF stream.is_processing /\ stream.pc # "done"
                                               THEN TRUE ELSE @,
                                 !.intr_after_parse = @ \/ stream.pc = "w_running"]
                 ELSE r1
    /\ StreamUnchanged

InitStream ==
    /\ WsInit(0) /\ max_iterations = StreamIterations
    /\ RunIdle /\ FsIdle /\ OrchIdle /\ RmIdle /\ CtxIdle /\ PlanIdle /\ ConnIdle /\ MoreIdle
    /\ \E kind \in {"chat", "plan"} : stream = NewStream(kind)

NextStream ==
    \/ StreamStart
    \/ StreamSendReturns
    \/ \E response \in Responses : StreamLlmResponds(response)
    \/ StreamLlmTimesOut
    \/ StreamLlmRaises
    \/ \E outcome \in {"result", "timeout", "exception"} : StreamToolReturns(outcome)
    \/ StreamFinish
    \/ \E type \in ControlTypes, has_data \in BOOLEAN : RecvControl(type, has_data)

SpecStream == InitStream /\ [][NextStream]_vars


(***************************************************************************)
(* Part X.  One DockerExecutionContext (execution/docker_context.py) and   *)
(* the containers of the Docker daemon.  start() has one await, the        *)
(* asyncio.sleep(0.5) of line 75; stop() has none.                         *)
(***************************************************************************)
MaxContainers == 5

NoContainer == 0
ContainerIds == 1..MaxContainers

\* DockerExecutionContext.__init__ (docker_context.py 16-27)
NewDocker ==
    [_started |-> FALSE, container |-> NoContainer, client |-> FALSE,
     pc |-> "idle", daemon |-> {}, created |-> 0,
     last |-> [op |-> "none", outcome |-> "none", was_started |-> FALSE],
     prev |-> [op |-> "none", outcome |-> "none", was_started |-> FALSE]]

\* The context after a call: last is the call, prev the call before it.
DockerCalled(d, op, outcome) ==
    [d EXCEPT !.last = [op |-> op, outcome |-> outcome, was_started |-> d._started],
              !.prev = IF d.pc = "sleep" THEN @ ELSE d.last,
              !.pc = IF outcome = "sleeping" THEN "sleep" ELSE "idle"]

\* start() up to its await or its return.  fails_at is where a
\* DockerException is raised: "from_env" (line 35), "images" (45-48),
\* "run" (58-72, after the container of the same name was removed), or
\* "none".
start(d, fails_at) ==
    IF d._started THEN DockerCalled(d, "start", "returned")
    ELSE IF fails_at = "from_env" THEN DockerCalled(d, "start", "RuntimeError")
    ELSE LET c == [d EXCEPT !.client = TRUE] IN
         IF fails_at = "images" THEN DockerCalled(c, "start", "RuntimeError")
         ELSE LET e == [c EXCEPT !.daemon = {}] IN
              IF fails_at = "run" THEN DockerCalled(e, "start", "RuntimeError")
              ELSE DockerCalled([e EXCEPT !.container = d.created + 1,
                                          !.created = @ + 1,
                                          !.daemon = {d.created + 1}],
                                "start", "sleeping")

\* stop() (docker_context.py 167-176).  remove_fails: container.stop() or
\* container.remove() raises, which is swallowed.
stop(d, remove_fails) ==
    IF d.container # NoContainer
    THEN DockerCalled([d EXCEPT !.container = NoContainer, !._started = FALSE,
                                !.daemon = IF remove_fails THEN @ ELSE @ \ {d.container}],
                      "stop", "returned")
    ELSE DockerCalled(d, "stop", "returned")

DockerUnchanged ==
    UNCHANGED <<wsVars, max_iterations, run, fs, orch, rm, ctx, pplan, conn, stream,
                proj, planner, dlg, hist>>

DockerStart(fails_at) ==
    /\ docker.pc = "idle"
    /\ docker.created < MaxContainers
    /\ docker' = start(docker, fails_at)
    /\ DockerUnchanged

\* The sleep of line 75 ends and start() returns.
DockerSleepReturns ==
    /\ docker.pc = "sleep"
    /\ docker' = DockerCalled([docker EXCEPT !._started = TRUE], "start", "returned")
    /\ DockerUnchanged

\* The task awaiting start() is cancelled during the sleep of line 75:
\* CancelledError is not a DockerException and leaves start() there.
DockerStartCancelled ==
    /\ docker.pc = "sleep"
    /\ docker' = DockerCalled(docker, "start", "CancelledError")
    /\ DockerUnchanged

DockerStop(remove_fails) ==
    /\ docker.pc = "idle"
    /\ docker' = stop(docker, remove_fails)
    /\ DockerUnchanged

InitDocker ==
    /\ WsInit(0) /\ max_iterations = MaxIterations
    /\ RunIdle /\ FsIdle /\ OrchIdle /\ RmIdle /\ CtxIdle /\ PlanIdle /\ ConnIdle
    /\ StreamIdle /\ proj = "idle" /\ planner = "idle" /\ dlg = "idle" /\ hist = "idle"
    /\ docker = NewDocker

NextDocker ==
    \/ \E fails_at \in {"none", "from_env", "images", "run"} : DockerStart(fails_at)
    \/ DockerSleepReturns
    \/ DockerStartCancelled
    \/ \E remove_fails \in BOOLEAN : DockerStop(remove_fails)

SpecDocker == InitDocker /\ [][NextDocker]_vars


(***************************************************************************)
(* Part XI.  ProjectOrchestrator.execute (agent/project_orchestrator.py)   *)
(* on a plan of the ContentPlanner (agent/content_planner.py), with        *)
(* pause_execution() and resume_execution() called while it runs.          *)
(***************************************************************************)
MaxDeliverables == 2
MaxPauseCalls == 2

\* Names the ProjectAnalyzer gives to detected deliverables, in the order
\* list.sort() puts them.
DeliverableNames == <<"Code", "Rapport">>
NameRank(name) == CHOOSE i \in DOMAIN DeliverableNames : DeliverableNames[i] = name

\* The id "deliverable_<i>"
DeliverableId(i) == IF i = 1 THEN "deliverable_1" ELSE "deliverable_2"

PSection(id, optional) == [id |-> id, optional |-> optional]

\* Section lists of a deliverable: one mandatory section, or a mandatory
\* section followed by an optional one (content_planner.py 283-287).
SectionLists ==
    { <<PSection("main", FALSE)>>,
      <<PSection("main", FALSE), PSection("tests", TRUE)>> }

PDeliverable(id, name, depends_on, sections) ==
    [id |-> id, name |-> name, depends_on |-> depends_on, sections |-> sections]

NewProjectPlan(kind, deliverables, execution_order) ==
    [kind |-> kind, deliverables |-> deliverables, execution_order |-> execution_order]

\* The edges of the dependency graph out of name current.
Neighbors(dependencies, current) ==
    {d[2] : d \in {e \in dependencies : e[1] = current}}

\* The loop of _resolve_execution_order (project_analyzer.py 325-333).
RECURSIVE KahnOrder(_, _, _, _)
KahnOrder(dependencies, in_degree, queue, order) ==
    IF queue = << >> THEN order
    ELSE LET sorted == SortSeq(queue, LAMBDA a, b : NameRank(a) < NameRank(b))
             current == Head(sorted)
             deg == [n \in DOMAIN in_degree |->
                        IF n \in Neighbors(dependencies, current)
                        THEN in_degree[n] - 1 ELSE in_degree[n]]
             freed == SelectSeq(DeliverableNames,
                         LAMBDA n : n \in Neighbors(dependencies, current)
                                    /\ n \in DOMAIN deg /\ deg[n] = 0)
         IN KahnOrder(dependencies, deg, Tail(sorted) \o freed, Append(order, current))

\* ProjectAnalyzer._resolve_execution_order: names in topological order,
\* or in detection order when the dependencies have a cycle.
_resolve_execution_order(names, dependencies) ==
    IF names = << >> THEN << >>
    ELSE LET graph == {names[i] : i \in DOMAIN names}
             deps == {d \in dependencies : d[1] \in graph /\ d[2] \in graph}
             in_degree == [n \in graph |-> Cardinality({d \in deps : d[2] = n})]
             queue == SelectSeq(names, LAMBDA n : in_degree[n] = 0)
             order == KahnOrder(deps, in_degree, queue, << >>)
         IN IF Len(order) # Len(names) THEN names ELSE order

\* What ProjectAnalyzer.analyze hands to the planner.
Analysis(names, dependencies) ==
    [deliverables |-> names, dependencies |-> dependencies,
     execution_order |-> _resolve_execution_order(names, dependencies)]

NameLists == {<< >>, <<"Rapport">>, <<"Code", "Rapport">>, <<"Rapport", "Code">>}
DependencySets == SUBSET {<<"Code", "Rapport">>, <<"Rapport", "Code">>}

\* ContentPlanner._create_simple_plan
_create_simple_plan(analysis, sections) ==
    IF analysis.deliverables = << >>
    THEN NewProjectPlan("simple", << >>, << >>)
    ELSE NewProjectPlan("simple",
            <<PDeliverable("deliverable_1", analysis.deliverables[1], {}, sections)>>,
            <<"deliverable_1">>)

\* ContentPlanner._create_fallback_plan: the ids are deliverable_<i>, the
\* execution order is the order of the analysis, which holds names.
_create_fallback_plan(analysis, sections) ==
    LET names == analysis.deliverables
        IdOf(name) == DeliverableId(CHOOSE j \in DOMAIN names : names[j] = name)
    IN
    NewProjectPlan("fallback",
        [i \in DOMAIN names |->
            PDeliverable(DeliverableId(i), names[i],
                {IdOf(d[1]) : d \in {e \in analysis.dependencies :
                                        e[2] = names[i]
                                        /\ \E j \in DOMAIN names : names[j] = e[1]}},
                sections)],
        analysis.execution_order)

\* The plan dictionaries of an LLM response: n deliverables, the second
\* depending on the first or not, with an execution_order or without.
NoOrder == [given |-> FALSE]
GivenOrder(order) == [given |-> TRUE, order |-> order]
LlmOrders ==
    {NoOrder} \cup {GivenOrder(o) : o \in
        {<<"deliverable_1">>, <<"deliverable_1", "deliverable_2">>,
         <<"deliverable_2", "deliverable_1">>}}
LlmPlanData ==
    {[n |-> n, depends |-> dep, execution_order |-> o] :
        n \in 1..MaxDeliverables, dep \in BOOLEAN, o \in LlmOrders}

\* ContentPlanner._parse_llm_plan
_parse_llm_plan(data, sections) ==
    LET deliverables ==
           [i \in 1..data.n |->
               PDeliverable(DeliverableId(i), DeliverableNames[i],
                            IF i = 2 /\ data.depends THEN {"deliverable_1"} ELSE {},
                            sections)]
    IN NewProjectPlan("llm", deliverables,
          IF data.execution_order.given THEN data.execution_order.order
          ELSE [i \in DOMAIN deliverables |-> deliverables[i].id])

\* The plans ContentPlanner.create_plan returns.
ProjectPlans ==
    {_create_simple_plan(Analysis(names, {}), s) :
        names \in {n \in NameLists : Len(n) <= 1}, s \in SectionLists}
    \cup {_create_fallback_plan(Analysis(names, deps), s) :
             names \in NameLists, deps \in DependencySets, s \in SectionLists}
    \cup {_parse_llm_plan(data, s) : data \in LlmPlanData, s \in SectionLists}

DeliverableResult(deliverable_id, status, section_results) ==
    [deliverable_id |-> deliverable_id, status |-> status,
     section_results |-> section_results]

\* ProjectOrchestrator with current_plan set and the plan approved, at the
\* head of the loop of execute (project_orchestrator.py 174-199).
NewProj(plan) ==
    [plan |-> plan, di |-> 1, si |-> 0, section_results |-> << >>,
     deliverable_results |-> << >>, status |-> "executing",
     current_status |-> "executing", should_pause |-> FALSE, pc |-> "loop",
     calls |-> 0, resumed |-> 0, paused_in_section |-> FALSE]

\* next((d for d in plan.deliverables if d.id == deliverable_id), None)
FindDeliverable(plan, deliverable_id) ==
    LET hits == {i \in DOMAIN plan.deliverables :
                    plan.deliverables[i].id = deliverable_id}
    IN IF hits = {} THEN 0 ELSE CHOOSE i \in hits : \A j \in hits : i <= j

\* ProjectOrchestrator._check_dependencies
_check_dependencies(deliverable, results) ==
    \A dep_id \in deliverable.depends_on :
       \E k \in DOMAIN results :
          /\ results[k].deliverable_id = dep_id
          /\ \A j \in DOMAIN results : results[j].deliverable_id = dep_id => k <= j
          /\ results[k].status = "completed"

\* The body of the loop of execute after its pause check (208-226), up to
\* the first section of the deliverable.
ProjTakeDeliverable(p) ==
    LET deliverable_id == p.plan.execution_order[p.di]
        i == FindDeliverable(p.plan, deliverable_id)
        q == [p EXCEPT !.current_status = "executing"]
    IN
    IF i = 0 THEN [q EXCEPT !.di = @ + 1, !.pc = "loop"]
    ELSE IF ~_check_dependencies(p.plan.deliverables[i], p.deliverable_results)
    THEN [q EXCEPT !.di = @ + 1, !.pc = "loop",
                   !.deliverable_results =
                       Append(@, DeliverableResult(deliverable_id, "skipped", << >>))]
    ELSE [q EXCEPT !.pc = "section", !.si = 1, !.section_results = << >>]

\* The deliverable in execution.
CurrentDeliverable(p) ==
    p.plan.deliverables[FindDeliverable(p.plan, p.plan.execution_order[p.di])]

ProjUnchanged ==
    UNCHANGED <<wsVars, max_iterations, run, fs, orch, rm, ctx, pplan, conn, stream,
                docker, planner, dlg, hist>>

\* The head of the loop over plan.execution_order (199-214), or the end of
\* the loop (234-239).
ProjLoop ==
    /\ proj.pc = "loop"
    /\ proj' = IF proj.di > Len(proj.plan.execution_order)
               THEN [proj EXCEPT !.status = "completed", !.pc = "done"]
               ELSE IF proj.should_pause
               THEN [proj EXCEPT !.current_status = "paused", !.pc = "paused"]
               ELSE ProjTakeDeliverable(proj)
    /\ ProjUnchanged

\* One sleep of the polling loop of lines 203-204 returns; resumed counts
\* the project_resumed notifications (206).
ProjPausedPoll ==
    /\ proj.pc = "paused"
    /\ proj' = IF proj.should_pause THEN proj
               ELSE ProjTakeDeliverable([proj EXCEPT !.resumed = @ + 1])
    /\ ProjUnchanged

\* One turn of the loop over deliverable.sections (269-299); outcome is
\* the status of the SectionResult that _execute_section returns.
ProjSection(outcome) ==
    /\ proj.pc = "section"
    /\ LET deliverable == CurrentDeliverable(proj) IN
       proj' =
          IF proj.si > Len(deliverable.sections)
          THEN [proj EXCEPT !.pc = "loop", !.di = @ + 1,
                   !.deliverable_results =
                       Append(@, DeliverableResult(deliverable.id, "completed",
                                                   proj.section_results))]
          ELSE IF proj.should_pause
          THEN [proj EXCEPT !.si = @ + 1, !.paused_in_section = TRUE]
          ELSE LET section == deliverable.sections[proj.si]
                   results == Append(proj.section_results,
                                     [section_id |-> section.id, status |-> outcome])
               IN IF outcome = "failed" /\ ~section.optional
                  THEN [proj EXCEPT !.pc = "done", !.status = "failed",
                           !.section_results = results,
                           !.deliverable_results =
                               Append(@, DeliverableResult(deliverable.id, "failed",
                                                           results))]
                  ELSE [proj EXCEPT !.si = @ + 1, !.section_results = results]
    /\ ProjUnchanged

\* ProjectOrchestrator.pause_execution
ProjPause ==
    /\ proj.pc # "done" /\ proj.calls < MaxPauseCalls /\ ~proj.should_pause
    /\ proj' = [proj EXCEPT !.should_pause = TRUE, !.calls = @ + 1]
    /\ ProjUnchanged

\* ProjectOrchestrator.resume_execution
ProjResume ==
    /\ proj.pc # "done" /\ proj.calls < MaxPauseCalls /\ proj.should_pause
    /\ proj' = [proj EXCEPT !.should_pause = FALSE, !.calls = @ + 1]
    /\ ProjUnchanged

InitProj ==
    /\ WsInit(0) /\ max_iterations = MaxIterations
    /\ RunIdle /\ FsIdle /\ OrchIdle /\ RmIdle /\ CtxIdle /\ PlanIdle /\ ConnIdle
    /\ StreamIdle /\ docker = "idle" /\ planner = "idle" /\ dlg = "idle" /\ hist = "idle"
    /\ \E plan \in ProjectPlans : proj = NewProj(plan)

NextProj ==
    \/ ProjLoop
    \/ ProjPausedPoll
    \/ \E outcome \in {"completed", "failed"} : ProjSection(outcome)
    \/ ProjPause
    \/ ProjResume

SpecProj == InitProj /\ [][NextProj]_vars


(***************************************************************************)
(* Part XII.  PlannerAgent.create_plan (agent/planner.py 214-252): the     *)
(* task is classified, a simple task gets the one-step plan, any other     *)
(* task gets the plan parsed from the LLM response, or the template plan   *)
(* when the response holds no JSON.                                        *)
(***************************************************************************)
MaxPlanSteps == 2

\* A task, as far as create_plan looks at it: its class (_classify_task)
\* and the template its words select (_create_fallback_plan).
PlannerTasks ==
    {[complexity |-> c, template |-> t] :
        c \in {"simple", "moderate", "complex"}, t \in {"document", "code", "other"}}

Step(id, dependencies) == [id |-> id, dependencies |-> dependencies]

\* One entry of "steps" in the JSON of the LLM: an id or none, and a list
\* of dependencies.
StepData ==
    {[has_id |-> h, id |-> i, dependencies |-> d] :
        h \in BOOLEAN, i \in 1..MaxPlanSteps, d \in SUBSET (1..MaxPlanSteps)}

NoJson == [json |-> FALSE]
PlanData(steps) == [json |-> TRUE, steps |-> steps]

\* The responses of the LLM: text without JSON, or a plan dictionary.
PlannerResponses ==
    {NoJson} \cup {PlanData(s) : s \in UNION {[1..n -> StepData] : n \in 0..MaxPlanSteps}}

\* PlannerAgent._create_simple_plan
Planner_create_simple_plan == <<Step(1, {})>>

\* The steps 1..n of a template, each depending on the one before it.
Chain(n) == [i \in 1..n |-> Step(i, IF i = 1 THEN {} ELSE {i - 1})]

\* PlannerAgent._create_fallback_plan
Planner_create_fallback_plan(task) ==
    CASE task.template = "document" -> Chain(5)
      [] task.template = "code" -> Chain(4)
      [] OTHER -> Chain(3)

\* PlannerAgent._parse_plan: the steps of the dictionary, with the id
\* len(steps) + 1 for a step that has none.
RECURSIVE _parse_plan(_, _)
_parse_plan(data, steps) ==
    IF Len(steps) = Len(data) THEN steps
    ELSE LET step_data == data[Len(steps) + 1] IN
         _parse_plan(data,
            Append(steps, Step(IF step_data.has_id THEN step_data.id
                               ELSE Len(steps) + 1,
                               step_data.dependencies)))

NewPlanner(task) ==
    [task |-> task, pc |-> "created", source |-> "none", steps |-> << >>]

PlannerReturns(p, source, steps) ==
    [p EXCEPT !.pc = "returned", !.source = source, !.steps = steps]

PlannerUnchanged ==
    UNCHANGED <<wsVars, max_iterations, run, fs, orch, rm, ctx, pplan, conn, stream,
                docker, proj, dlg, hist>>

\* create_plan up to its return or its LLM call (224-236).
PlannerStart ==
    /\ planner.pc = "created"
    /\ planner' = IF planner.task.complexity = "simple"
                  THEN PlannerReturns(planner, "simple", Planner_create_simple_plan)
                  ELSE [planner EXCEPT !.pc = "llm"]
    /\ PlannerUnchanged

\* The LLM call returns and create_plan returns a plan (238-252).
PlannerLlmReturns(response) ==
    /\ planner.pc = "llm"
    /\ planner' = IF response.json
                  THEN PlannerReturns(planner, "llm", _parse_plan(response.steps, << >>))
                  ELSE PlannerReturns(planner, "fallback",
                                      Planner_create_fallback_plan(planner.task))
    /\ PlannerUnchanged

\* The LLM call raises: create_plan returns no plan.
PlannerLlmRaises ==
    /\ planner.pc = "llm"
    /\ planner' = [planner EXCEPT !.pc = "raised"]
    /\ PlannerUnchanged

InitPlanner ==
    /\ WsInit(0) /\ max_iterations = MaxIterations
    /\ RunIdle /\ FsIdle /\ OrchIdle /\ RmIdle /\ CtxIdle /\ PlanIdle /\ ConnIdle
    /\ StreamIdle /\ docker = "idle" /\ proj = "idle" /\ dlg = "idle" /\ hist = "idle"
    /\ \E task \in PlannerTasks : planner = NewPlanner(task)

NextPlanner ==
    \/ PlannerStart
    \/ \E response \in PlannerResponses : PlannerLlmReturns(response)
    \/ PlannerLlmRaises

SpecPlanner == InitPlanner /\ [][NextPlanner]_vars


(***************************************************************************)
(* Part XIII.  The plan dialogue of one connection: the messages chat,     *)
(* approve_plan, update_plan and interrupt (handler.py 445-581) with the   *)
(* reply each one gets, and the run a chat or an approval starts, at most  *)
(* one at a time.  An exception that leaves handle_websocket_message ends  *)
(* the receive loop of websocket_chat (chat.py 95-114).                    *)
(***************************************************************************)
MaxDialogueMsgs == 4

DlgContents == {"simple", "complex"}

\* The "plan" of an update_plan message: none or an empty one; a title
\* without phases; a title with phases that have ids and names; a title
\* with a phase that has no "id".
UpdateData == {"none", "title_only", "full", "bad_phase"}

NoDlgPlan == [exists |-> FALSE, status |-> "none", title |-> "none", phases |-> "none"]

\* generate_plan (handler.py 165-218)
GeneratedPlan ==
    [exists |-> TRUE, status |-> "pending", title |-> "generated", phases |-> "generated"]

NoPending == [exists |-> FALSE, content |-> "none"]
NoDlgRun ==
    [pc |-> "none", kind |-> "none", content |-> "none", cancelReq |-> FALSE,
     cancelled |-> FALSE, intr_during |-> FALSE, flag_at_creation |-> FALSE,
     outcome |-> "none", started_plan |-> NoDlgPlan]

NewDlgRun(kind, content, flag) ==
    [NoDlgRun EXCEPT !.pc = "created", !.kind = kind, !.content = content,
                     !.flag_at_creation = flag]

NewDlg ==
    [open |-> TRUE, is_processing |-> FALSE, should_interrupt |-> FALSE,
     plan |-> NoDlgPlan, pending_task |-> NoPending, run |-> NoDlgRun, nmsgs |-> 0,
     last |-> [type |-> "none", content |-> "none", data |-> "none",
               was_processing |-> FALSE, plan_before |-> NoDlgPlan,
               pending_before |-> NoPending, reply |-> "none"]]

DlgRunLive(d) == d.run.pc \notin {"none", "done"}

\* The connection after a message: what was received, in which state, and
\* what the handler answered ("started" when it created a task and sent
\* nothing, "nothing" when it did nothing, "raised" when it raised).
Handled(d, old, type, content, data, reply) ==
    [d EXCEPT !.nmsgs = @ + 1,
              !.open = (reply # "raised"),
              !.last = [type |-> type, content |-> content, data |-> data,
                        was_processing |-> old.is_processing,
                        plan_before |-> old.plan,
                        pending_before |-> old.pending_task, reply |-> reply]]

\* chat (handler.py 445-507).  planFails: generate_plan raises.
chat(d, content, planFails) ==
    IF d.is_processing THEN Handled(d, d, "chat", content, "none", "error")
    ELSE LET c == [d EXCEPT !.should_interrupt = FALSE] IN
         IF content = "complex" /\ ~d.plan.exists
         THEN IF planFails THEN Handled(c, d, "chat", content, "none", "error")
              ELSE Handled([c EXCEPT !.plan = GeneratedPlan,
                                     !.pending_task = [exists |-> TRUE, content |-> content]],
                           d, "chat", content, "none", "plan_proposal")
         ELSE Handled([c EXCEPT !.is_processing = TRUE,
                                !.run = NewDlgRun("chat", content, FALSE)],
                      d, "chat", content, "none", "started")

\* approve_plan (handler.py 509-547)
approve_plan(d) ==
    IF ~d.plan.exists \/ ~d.pending_task.exists
    THEN Handled(d, d, "approve_plan", "none", "none", "error")
    ELSE Handled([d EXCEPT !.plan.status = "approved", !.is_processing = TRUE,
                           !.run = NewDlgRun("plan", d.pending_task.content,
                                             d.should_interrupt)],
                 d, "approve_plan", "none", "none", "started")

\* update_plan (handler.py 549-568).  The title is assigned and the phase
\* list emptied before the phases of the message are read; p["id"] raises
\* KeyError for a phase without an id.
update_plan(d, data) ==
    IF data = "none" THEN Handled(d, d, "update_plan", "none", data, "error")
    ELSE IF ~d.plan.exists THEN Handled(d, d, "update_plan", "none", data, "nothing")
    ELSE CASE data = "title_only" ->
                 Handled([d EXCEPT !.plan.title = "edited", !.plan.phases = "empty"],
                         d, "update_plan", "none", data, "plan_updated")
           [] data = "full" ->
                 Handled([d EXCEPT !.plan.title = "edited", !.plan.phases = "edited"],
                         d, "update_plan", "none", data, "plan_updated")
           [] data = "bad_phase" ->
                 Handled([d EXCEPT !.plan.title = "edited", !.plan.phases = "empty"],
                         d, "update_plan", "none", data, "raised")

\* interrupt (handler.py 570-581)
interrupt(d) ==
    Handled([d EXCEPT !.should_interrupt = TRUE,
                      !.run.cancelReq = IF DlgRunLive(d) THEN TRUE ELSE @,
                      !.run.cancelled = IF DlgRunLive(d) THEN TRUE ELSE @,
                      !.run.intr_during = IF DlgRunLive(d) THEN TRUE ELSE @],
            d, "interrupt", "none", "none", "interrupting")

\* The run ends with the event outcome; run_agent is in its last send.
DlgEnding(d, outcome) ==
    [d EXCEPT !.run.pc = "ending", !.run.outcome = outcome, !.run.cancelReq = FALSE]

DlgUnchanged ==
    UNCHANGED <<wsVars, max_iterations, run, fs, orch, rm, ctx, pplan, conn, stream,
                docker, proj, planner, hist>>

DlgRecvChat(content, planFails) ==
    /\ dlg.open /\ dlg.nmsgs < MaxDialogueMsgs
    /\ dlg' = chat(dlg, content, planFails)
    /\ DlgUnchanged

\* approve_plan does not look at is_processing; the model follows one run
\* at a time and leaves out an approval that arrives during a run.
DlgRecvApprovePlan ==
    /\ dlg.open /\ dlg.nmsgs < MaxDialogueMsgs
    /\ ~DlgRunLive(dlg)
    /\ dlg' = approve_plan(dlg)
    /\ DlgUnchanged

DlgRecvUpdatePlan(data) ==
    /\ dlg.open /\ dlg.nmsgs < MaxDialogueMsgs
    /\ dlg' = update_plan(dlg, data)
    /\ DlgUnchanged

DlgRecvInterrupt ==
    /\ dlg.open /\ dlg.nmsgs < MaxDialogueMsgs
    /\ dlg' = interrupt(dlg)
    /\ DlgUnchanged

\* The first step of run_agent, up to the send of status working; a task
\* cancelled before its first step never runs.
DlgRunStart ==
    /\ dlg.run.pc = "created"
    /\ dlg' = IF dlg.run.cancelReq
              THEN [dlg EXCEPT !.run.pc = "done", !.run.outcome = "never_ran",
                               !.run.cancelReq = FALSE]
              ELSE [dlg EXCEPT !.run.pc = "w_working"]
    /\ DlgUnchanged

\* A send of run_agent before run_streaming returns: plan_started with
\* the plan as it is now (533), then run_streaming up to the first check
\* of the interrupt flag (242, 269-274).
DlgRunSendReturns ==
    /\ dlg.run.pc \in {"w_working", "w_plan_started"}
    /\ dlg' = IF dlg.run.cancelReq THEN DlgEnding(dlg, "interrupted")
              ELSE IF dlg.run.pc = "w_working" /\ dlg.run.kind = "plan"
              THEN [dlg EXCEPT !.run.pc = "w_plan_started", !.run.started_plan = dlg.plan]
              ELSE IF dlg.should_interrupt
              THEN DlgEnding([dlg EXCEPT !.run.cancelled = FALSE], "interrupted")
              ELSE [dlg EXCEPT !.run.pc = "running", !.run.cancelled = FALSE]
    /\ DlgUnchanged

\* run_streaming returns and complete is sent, or the task is cancelled
\* at one of its awaits.
DlgRunReturns ==
    /\ dlg.run.pc = "running"
    /\ dlg' = IF dlg.run.cancelReq THEN DlgEnding(dlg, "interrupted")
              ELSE DlgEnding(dlg, "complete")
    /\ DlgUnchanged

\* The last send of run_agent returns and its finally block runs
\* (handler.py 490-500, 535-544); a cancellation that lands in the send of
\* complete is answered with interrupted.
DlgRunFinally ==
    /\ dlg.run.pc = "ending"
    /\ dlg' = [dlg EXCEPT
                 !.run.pc = "done", !.run.cancelReq = FALSE,
                 !.run.outcome = IF dlg.run.cancelReq THEN "interrupted" ELSE @,
                 !.is_processing = FALSE,
                 !.plan.status = IF dlg.run.kind = "chat" /\ dlg.plan.exists
                                 THEN "completed" ELSE @,
                 !.pending_task = IF dlg.run.kind = "plan" THEN NoPending ELSE @]
    /\ DlgUnchanged

InitDlg ==
    /\ WsInit(0) /\ max_iterations = MaxIterations
    /\ RunIdle /\ FsIdle /\ OrchIdle /\ RmIdle /\ CtxIdle /\ PlanIdle /\ ConnIdle
    /\ StreamIdle /\ docker = "idle" /\ proj = "idle" /\ planner = "idle"
    /\ dlg = NewDlg
    /\ hist = "idle"

NextDlg ==
    \/ \E content \in DlgContents, planFails \in BOOLEAN : DlgRecvChat(content, planFails)
    \/ DlgRecvApprovePlan
    \/ \E data \in UpdateData : DlgRecvUpdatePlan(data)
    \/ DlgRecvInterrupt
    \/ DlgRunStart
    \/ DlgRunSendReturns
    \/ DlgRunReturns
    \/ DlgRunFinally

SpecDlg == InitDlg /\ [][NextDlg]_vars


(***************************************************************************)
(* Part XIV.  The message history of one ConversationContext and the runs  *)
(* of run_streaming that share it (handler.py 240-418).  A run gathers     *)
(* react_steps at the awaits of its loop, gets its final answer, and       *)
(* returns through lines 412-418, which have no await: add_user_message    *)
(* and add_assistant_message run in one step of the event loop.  A second  *)
(* run on the same context exists when approve_plan arrives during a run   *)
(* or another connection resumed the session.                              *)
(***************************************************************************)
HistRuns == 2
MaxReactSteps == 1

HistTasks == {"a", "b"}
HistAnswers == {"done", InterruptedMsg}

NewHistRun ==
    [pc |-> "idle", task |-> "none", react_steps |-> << >>, final_answer |-> "",
     overlapped |-> FALSE, before |-> << >>, after_len |-> 0]

NewHist == [message_history |-> << >>, now |-> 0, runs |-> [i \in 1..HistRuns |-> NewHistRun]]

\* ConversationContext.add_user_message (conversation_context.py 105-111)
add_user_message(h, content) ==
    [h EXCEPT !.message_history = Append(@, Message("user", content, h.now + 1, << >>)),
              !.now = @ + 1]

\* ConversationContext.add_assistant_message (conversation_context.py 113-121)
add_assistant_message(h, content, react_steps) ==
    [h EXCEPT !.message_history =
                 Append(@, Message("assistant", content, h.now + 1, react_steps)),
              !.now = @ + 1]

\* The end of a run that records the answer before the task.
run_streaming_end_answer_first(h, r) ==
    add_user_message(add_assistant_message(h, r.final_answer, r.react_steps), r.task)

\* The end of run_streaming (handler.py 412-416).
run_streaming_end(h, r) ==
    add_assistant_message(add_user_message(h, r.task), r.final_answer, r.react_steps)

HistUnchanged ==
    UNCHANGED <<wsVars, max_iterations, run, fs, orch, rm, ctx, pplan, conn, stream,
                docker, proj, planner, dlg>>

\* run_streaming(task) is entered (handler.py 240-267).
HistStart(i, task) ==
    /\ hist.runs[i].pc = "idle"
    /\ hist' = [hist EXCEPT
                  !.runs[i].pc = "looping", !.runs[i].task = task,
                  !.runs[i].overlapped =
                      \E j \in 1..HistRuns : hist.runs[j].pc \in {"looping", "finishing"}]
    /\ HistUnchanged

\* The next entry of react_steps: the thought of an iteration, then its
\* action (handler.py 310, 339).
HistStep(i) ==
    /\ hist.runs[i].pc = "looping"
    /\ Len(hist.runs[i].react_steps) < MaxReactSteps
    /\ hist' = [hist EXCEPT
                  !.runs[i].react_steps =
                      Append(@, IF Len(@) % 2 = 0 THEN "thought" ELSE "action")]
    /\ HistUnchanged

\* set_final_answer and the send that follows it: a final answer, an
\* interrupt, a timeout or the iteration limit.
HistFinal(i, answer) ==
    /\ hist.runs[i].pc = "looping"
    /\ hist' = [hist EXCEPT !.runs[i].pc = "finishing", !.runs[i].final_answer = answer]
    /\ HistUnchanged

\* The run returns (handler.py 412-418).
HistReturn(i) ==
    /\ hist.runs[i].pc = "finishing"
    /\ LET h == run_streaming_end(hist, hist.runs[i]) IN
       hist' = [h EXCEPT !.runs[i].pc = "returned",
                         !.runs[i].before = hist.message_history,
                         !.runs[i].after_len = Len(h.message_history)]
    /\ HistUnchanged

\* The run ends with an exception or a cancellation that leaves
\* run_streaming: nothing is appended.
HistRaise(i) ==
    /\ hist.runs[i].pc \in {"looping", "finishing"}
    /\ hist' = [hist EXCEPT !.runs[i] = [NewHistRun EXCEPT !.pc = "raised"]]
    /\ HistUnchanged

InitHist ==
    /\ WsInit(0) /\ max_iterations = MaxIterations
    /\ RunIdle /\ FsIdle /\ OrchIdle /\ RmIdle /\ CtxIdle /\ PlanIdle /\ ConnIdle
    /\ StreamIdle /\ docker = "idle" /\ proj = "idle" /\ planner = "idle"
    /\ dlg = "idle"
    /\ hist = NewHist

NextHist ==
    \/ \E i \in 1..HistRuns, task \in HistTasks : HistStart(i, task)
    \/ \E i \in 1..HistRuns : HistStep(i)
    \/ \E i \in 1..HistRuns, answer \in HistAnswers : HistFinal(i, answer)
    \/ \E i \in 1..HistRuns : HistReturn(i)
    \/ \E i \in 1..HistRuns : HistRaise(i)

SpecHist == InitHist /\ [][NextHist]_vars


(***************************************************************************)
(* Properties.                                                             *)
(***************************************************************************)
\* Inside run_streaming, and at its LLM call or tool call.
InRun(t) == tasks[t].pc \in {"w_thinking", "w_llm", "w_timeout_err", "w_intr_in",
                             "w_final", "w_running", "w_tool", "w_completed",
                             "w_failed", "w_maxfinal"}
Executing(t) == tasks[t].pc \in {"w_llm", "w_tool"}

\* C1: every task execution started by an accepted chat or approve_plan has
\* emitted exactly one terminal event (complete, interrupted or error) when
\* it has ended.
C1_ExactlyOneTerminalEvent ==
    \A t \in TaskIds : tasks[t].pc = "done" => tasks[t].nTerm = 1

\* C2 as stated: every task execution has emitted exactly one final_answer
\* event when it has ended, whichever way the run ended.
C2_ExactlyOneFinalAnswer ==
    \A t \in TaskIds : tasks[t].pc = "done" => tasks[t].nFinal = 1

\* C3: at most one ReAct run is active per session at any time.
C3_AtMostOneRun ==
    Cardinality({t \in TaskIds : InRun(t)}) <= 1

\* C4: once an interrupt has been handled and every task has ended,
\* is_processing is false again (so that the next chat is accepted).
C4_InterruptReleasesSession ==
    (should_interrupt /\ \A t \in TaskIds : ~Live(t)) => ~is_processing

\* C5: while the proposed plan has not been approved, no task is at an LLM
\* call or a tool call.
C5_NoRunBeforeApproval ==
    current_plan.status = "pending" => \A t \in TaskIds : ~Executing(t)

\* C6: in a single task every (tool, params) pair is dispatched at most
\* max_repeated_actions + 1 = 3 times (here: in the streaming run).
C6_DispatchedAtMostThrice ==
    \A t \in TaskIds : \A a \in Pairs :
        tasks[t].dispatched[a] <= max_repeated_actions + 1

\* C7: the fourth emission in a row of the same (tool, params) ends the
\* engine run with the stop message as its final answer.
C7_FourthEmissionStops ==
    run.emission.nth = 4 =>
        /\ run.emission.handling = "stopped"
        /\ run.is_complete /\ run.final_answer = StopMsg

\* C8: an engine run that has ended, whether its calls returned or timed
\* out, has ended with is_complete = true.
C8_EndsComplete ==
    run.pc \in {"returned", "raised"} => run.is_complete

\* C9: is_complete implies that final_answer is a non-empty string.
C9_CompleteHasAnswer ==
    run.is_complete => run.final_answer # ""

\* C10: every delete_file(p) called without force while p is in
\* protected_files returns the protection Error, removes no file, and leaves
\* p in protected_files and created_files as it was.
C10_ProtectedDeleteRefused ==
    [][\A p \in PathStrings :
          (/\ fs' # fs
           /\ fs'.last.op = "delete_file" /\ fs'.last.file_path = p
           /\ ~fs'.last.force
           /\ p \in fs.protected_files)
          => /\ fs'.last.result = ProtectedError
             /\ fs'.disk = fs.disk
             /\ p \in fs'.protected_files
             /\ fs'.created_files = fs.created_files]_vars

\* A protected file that exists has been the target of a delete_file
\* without force, and is still there and still protected.
C10_Witness ==
    /\ fs.last.op = "delete_file" /\ ~fs.last.force
    /\ fs.last.result = ProtectedError
    /\ fs.last.file_path \in fs.protected_files
    /\ fs.last.file_path \in fs.created_files
    /\ resolve_path(fs.last.file_path) \in fs.disk

\* C11: a delete_file without force that has removed a file has not removed
\* a file that is registered as protected under any path string.
C11_ProtectedFileSurvives ==
    (fs.last.op = "delete_file" /\ ~fs.last.force /\ fs.last.result = Deleted)
    => \A p \in fs.protected_files :
          resolve_path(p) # resolve_path(fs.last.file_path)

\* C12: whenever resolve_path(p) returns, the returned path denotes a
\* location inside workspace_dir.
C12_ResolvedInsideWorkspace ==
    (fs.last.op = "resolve_path" /\ fs.last.result = "returned")
    => InsideWorkspace(resolve_path(fs.last.file_path))

\* Step i of the plan has a dependency id whose step has not succeeded
\* when step i is reached: no step has the id, the step comes later (or is
\* step i itself), or its result is a failure or a skip.
UnmetDependency(i) ==
    \E dep \in orch.plan[i].dependencies :
       \/ dep \notin 1..Len(orch.plan)
       \/ dep >= i
       \/ ~orch.step_results[dep].success

C14_BudgetPerError ==
    \A c \in ErrorClasses : rm.granted[c] <= max_retries

C16_SaveLoadIdentity ==
    ctx.ops = <<"save", "load">> =>
       /\ ctx.loaded.returned
       /\ ctx.loaded.context.message_history = ctx.mem.message_history
       /\ ctx.loaded.context.created_files = ctx.mem.created_files
       /\ ctx.loaded.context.protected_files = ctx.mem.protected_files
       /\ ctx.loaded.context.outputs = ctx.mem.outputs
       /\ ctx.loaded.context.metadata.session_id = ctx.mem.metadata.session_id
       /\ ctx.loaded.context.metadata.created_at = ctx.mem.metadata.created_at

\* A context with a message whose content needs escaping and with a
\* protected file has been saved and loaded.
C16_Witness ==
    /\ ctx.ops = <<"save", "load">>
    /\ \E k \in DOMAIN ctx.mem.message_history :
          ctx.mem.message_history[k].content = <<"q", "b", "n", "NL">>
    /\ ctx.loaded.returned
    /\ ctx.loaded.context.message_history = ctx.mem.message_history
    /\ ctx.mem.protected_files # {}

\* C17: from_dict(to_dict(plan)) preserves the title, the plan status, the
\* deliverables and, for every phase, its name, its order and the name,
\* done_when and status of every task.
C17_PlanRoundTrip ==
    pplan.pc = "restored" =>
       /\ pplan.restored.title = pplan.plan.title
       /\ pplan.restored.status = pplan.plan.status
       /\ pplan.restored.deliverables = pplan.plan.deliverables
       /\ Len(pplan.restored.phases) = Len(pplan.plan.phases)
       /\ \A k \in DOMAIN pplan.plan.phases :
             LET before == pplan.plan.phases[k]
                 after == pplan.restored.phases[k] IN
             /\ after.name = before.name
             /\ after.order = before.order
             /\ Len(after.tasks) = Len(before.tasks)
             /\ \A j \in DOMAIN before.tasks :
                   /\ after.tasks[j].name = before.tasks[j].name
                   /\ after.tasks[j].done_when = before.tasks[j].done_when
                   /\ after.tasks[j].status = before.tasks[j].status

\* A plan with a deliverable and a phase holding a completed task with a
\* done_when has gone through both conversions.
C17_Witness ==
    /\ pplan.pc = "restored"
    /\ pplan.plan.deliverables # << >>
    /\ Len(pplan.plan.phases) = MaxPhases
    /\ \E k \in DOMAIN pplan.plan.phases :
          /\ pplan.plan.phases[k].tasks # << >>
          /\ pplan.plan.phases[k].tasks[1].status = TaskStatus("completed")
          /\ pplan.plan.phases[k].tasks[1].done_when = "reviewed"
    /\ pplan.restored.phases = pplan.plan.phases

\* The session of connection k is live: created and not closed.
LiveSession(k) == conn.c[k].session # "None" /\ conn.c[k].closed_by = 0

\* C18: no agent task is still running (in its LLM call, in a tool or about
\* to send) once its session has been closed and its sandbox stopped.
C18_NoAgentAfterClose ==
    \A k \in ConnIds :
       conn.c[k].agent \in AgentRunning => conn.c[k].closed_by = 0

\* C19: no two live sessions are bound to the same session id, that is to
\* the same workspace directory and container name.
C19_OneSessionPerWorkspace ==
    \A i, j \in ConnIds :
       (i # j /\ LiveSession(i) /\ LiveSession(j))
          => conn.c[i].session # conn.c[j].session

\* C20: a connection has no session, no sandbox and no call of
\* create_session_with_tools before its first chat or request_plan; that
\* message makes the one and only call; session_ready precedes every other
\* answer to it; a message of another type on an unbound connection is
\* answered with an error and binds nothing.
C20_LazyBind ==
    \A k \in ConnIds :
       LET c == conn.c[k] IN
       /\ c.creations <= 1
       /\ c.creations = 0 => (c.session = "None" /\ ~c.container /\ c.bind_msg = 0)
       /\ c.session # "None" => c.creations = 1
       /\ c.bind_msg # 0 => c.types[c.bind_msg] \in {"chat", "request_plan"}
       /\ \A i \in DOMAIN c.sent :
             (c.bind_msg # 0 /\ c.sent[i].msg = c.bind_msg
                /\ c.sent[i].ev \notin {"initializing", "session_ready", "error"})
                => \E j \in 1..(i - 1) : c.sent[j].ev = "session_ready"
       /\ \A n \in 1..c.received :
             (c.bind_msg = 0 \/ n < c.bind_msg)
                => /\ c.types[n] \notin {"chat", "request_plan"}
                   /\ \E i \in DOMAIN c.sent : c.sent[i] = [ev |-> "error", msg |-> n]

\* A connection answered an early interrupt with an error, then bound its
\* session on a chat and sent the first event of the agent task.
C20_Witness ==
    \E k \in ConnIds :
       LET c == conn.c[k] IN
       /\ c.bind_msg = 2 /\ c.session # "None"
       /\ \E i \in DOMAIN c.sent : c.sent[i] = [ev |-> "status", msg |-> 2]
       /\ \E i \in DOMAIN c.sent : c.sent[i] = [ev |-> "error", msg |-> 1]

\* C21: a connection whose session start failed on an unreachable container
\* runtime has sent exactly one error event for that message and no
\* session_ready, owns no active_connections entry and has closed no
\* session.
C21_DockerFailure ==
    \A k \in ConnIds :
       LET c == conn.c[k] IN
       c.docker_failed =>
          /\ Cardinality({i \in DOMAIN c.sent :
                            c.sent[i] = [ev |-> "error", msg |-> c.bind_msg]}) = 1
          /\ \A i \in DOMAIN c.sent : c.sent[i].ev # "session_ready"
          /\ \A id \in SessionIds : conn.active_connections[id] # k
          /\ \A j \in ConnIds : conn.c[j].closed_by # k

\* C22: while the approval that plan_pending_approval asks for is pending,
\* the orchestrator is in no step LLM call and no tool call and has
\* executed no step.
C22_WaitsForApproval ==
    orch.pending_approval =>
       /\ orch.pc \notin {"llm", "tool"}
       /\ \A k \in DOMAIN orch.step_results : orch.step_results[k].calls = 0

\* The events of the task itself, in the order the client receives them.
TaskEvents == SelectSeq(stream.events, LAMBDA e : e.src = "task")

\* C23: a suggestion, interrupt, update_plan, pause_execution or
\* resume_execution that arrives while is_processing is set is not answered
\* with an error event.
C23_ControlAccepted ==
    (stream.last_msg.processing /\ stream.last_msg.type \in ControlTypes
       /\ ~(stream.last_msg.type = "update_plan" /\ stream.last_msg.reply = "error"))
       => stream.last_msg.reply # "error"

\* C24: after the final_answer event of the task, its only further event
\* is complete.
C24_OnlyCompleteAfterFinal ==
    \A i, j \in DOMAIN TaskEvents :
       (i < j /\ TaskEvents[i].ev = "final_answer") => TaskEvents[j].ev = "complete"

\* C25: when the interrupt arrives after the response has been parsed and
\* before the tool is dispatched, no activity event exists for the action
\* of that iteration and the tool is not executed.
C25_InterruptBeforeDispatch ==
    stream.intr_after_parse =>
       /\ \A i \in DOMAIN TaskEvents :
             ~(TaskEvents[i].ev = "activity" /\ TaskEvents[i].it = stream.iteration)
       /\ stream.pc # "w_tool"

\* C26: a tool call that timed out leaves the observation 'Tool X timed out
\* after 5 minutes' and does not complete the task: the run is at the
\* activity event that precedes the next turn of the loop, unless an
\* interrupt has cancelled the task there.
C26_ToolTimeoutContinues ==
    stream.tool_outcome = "timeout" =>
       /\ stream.observation = ToolTimeoutMsg
       /\ ~stream.is_complete
       /\ stream.pc \in {"w_completed", "w_intr_outer", "done"}
       /\ stream.pc = "w_completed" =>
             TaskEvents[Len(TaskEvents)] = Event("activity", "completed", stream.iteration, "task")

\* After a tool timeout in the first iteration the run is in the LLM call
\* of the second.
C26_Witness ==
    /\ stream.tool_timeouts = 1 /\ stream.iteration = 2 /\ stream.pc = "w_llm"
    /\ stream.observation = ToolTimeoutMsg

\* C27: a task whose LLM call timed out on the first iteration ends with no
\* tool dispatched and with the timeout final answer.
C27_LlmTimeoutEnds ==
    (stream.llm_timeout_at = 1 /\ stream.pc = "done")
       => (stream.dispatched = 0 /\ stream.final_answer = TimeoutMsg)

\* A response holds a tool call and a final answer, in any order and in
\* the same Action or in two.
HasToolCall(response) ==
    \E a \in DOMAIN response.actions :
       \E i \in DOMAIN response.actions[a] : response.actions[a][i].k = "call"

HasFinalAnswer(response) ==
    \E a \in DOMAIN response.actions :
       \E i \in DOMAIN response.actions[a] : response.actions[a][i].k \in {"FA", "fa"}

\* C28: a response with both a tool call and a final answer completes the
\* task with the final answer and dispatches no tool in that iteration.
C28_FinalAnswerWins ==
    (stream.has_response /\ HasToolCall(stream.response)
       /\ HasFinalAnswer(stream.response) /\ stream.pc # "w_intr_in")
       => (stream.is_complete /\ stream.pc \notin {"w_running", "w_tool"})

\* C29: when the response of the iteration holds a thought, a thought event
\* of that iteration precedes its activity or final_answer event.
C29_ThoughtFirst ==
    (stream.has_response /\ stream.response.thought
       /\ stream.pc \in {"w_running", "w_final"})
       => \E i \in DOMAIN TaskEvents :
             TaskEvents[i].ev = "thought" /\ TaskEvents[i].it = stream.iteration

\* The calls of the context that change what the user sees.
Mutators ==
    {"add_user_message", "add_assistant_message", "register_file",
     "protect_file", "unprotect_file", "save_output"}

\* C30: with autosave on (the default), the last call of a mutator has set
\* updated_at to the time of the call.
C30_MutatorsBumpUpdatedAt ==
    (ctx.autosave /\ ctx.ops[2] \in Mutators)
       => ctx.mem.metadata.updated_at = ctx.now

\* C31: after any sequence of register_file, protect_file, unprotect_file
\* and delete_file calls every protected path is a created path.
C31_ProtectedSubsetCreated == fs.protected_files \subseteq fs.created_files

\* C32: whenever no start() or stop() call is in progress, the context is
\* marked started exactly when it holds a container; start() on a started
\* context changes nothing; after stop() it is not started and holds none.
C32_StartedIffContainer ==
    docker.pc = "idle" =>
       /\ docker._started <=> docker.container # NoContainer
       /\ docker.last.op = "stop" =>
             (~docker._started /\ docker.container = NoContainer)

\* C33: pausing and resuming never skips work: a deliverable whose result
\* is COMPLETED has one section result for each of its sections, in order.
C33_PauseSkipsNothing ==
    \A k \in DOMAIN proj.deliverable_results :
       LET r == proj.deliverable_results[k]
           d == proj.plan.deliverables[FindDeliverable(proj.plan, r.deliverable_id)]
       IN r.status = "completed" =>
             /\ Len(r.section_results) = Len(d.sections)
             /\ \A i \in DOMAIN d.sections : r.section_results[i].section_id = d.sections[i].id

\* C39: when execute returns COMPLETED, every deliverable of the plan has a
\* result whose status is COMPLETED or SKIPPED.
C39_NoDeliverableDropped ==
    (proj.pc = "done" /\ proj.status = "completed") =>
       \A i \in DOMAIN proj.plan.deliverables :
          \E k \in DOMAIN proj.deliverable_results :
             /\ proj.deliverable_results[k].deliverable_id = proj.plan.deliverables[i].id
             /\ proj.deliverable_results[k].status \in {"completed", "skipped"}

\* C40: in every Plan that create_plan returns, each dependency of a step
\* is the id of an earlier step.
C40_DependenciesOnEarlierSteps ==
    planner.pc = "returned" =>
       \A i \in DOMAIN planner.steps :
          \A dep \in planner.steps[i].dependencies :
             \E j \in 1..(i - 1) : planner.steps[j].id = dep

\* C34: a complex chat that is accepted (not refused with an error) is
\* answered with plan_proposal and starts no run, whatever plan the
\* connection had before.
C34_ComplexChatProposes ==
    (dlg.last.type = "chat" /\ dlg.last.content = "complex"
        /\ dlg.last.reply # "error")
       => dlg.last.reply = "plan_proposal"

\* C35: an update_plan with plan data received while a plan is pending is
\* answered with plan_updated, puts the title and the phases of the message
\* in the plan, starts no run and leaves pending_task and is_processing as
\* they were.
C35_UpdateBeforeApproval ==
    [][(/\ dlg'.nmsgs = dlg.nmsgs + 1
        /\ dlg'.last.type = "update_plan" /\ dlg'.last.data # "none"
        /\ dlg.plan.exists /\ dlg.plan.status = "pending"
        /\ dlg.pending_task.exists)
          => /\ dlg'.last.reply = "plan_updated"
             /\ dlg'.plan.title = "edited"
             /\ dlg'.plan.phases =
                   (IF dlg'.last.data = "full" THEN "edited" ELSE "empty")
             /\ dlg'.plan.status = "pending"
             /\ dlg'.run = dlg.run
             /\ dlg'.pending_task = dlg.pending_task
             /\ dlg'.is_processing = dlg.is_processing]_vars

\* C38: a run starts with the interrupt flag clear, and it ends as
\* interrupted only if an interrupt arrived while it existed.
C38_OldInterruptForgotten ==
    /\ dlg.run.pc # "none" => ~dlg.run.flag_at_creation
    /\ dlg.run.outcome = "interrupted" => dlg.run.intr_during

\* C36: in the events of the task, every activity running is followed,
\* before the next running and before the terminal event (complete,
\* interrupted, error), by exactly one activity completed or failed, and
\* every completed or failed has a running before it with no other
\* completed or failed in between.
C36_ActivityLifecycle ==
    LET ev == TaskEvents
        IsRunning(e) == e.ev = "activity" /\ e.status = "running"
        IsEnded(e) == e.ev = "activity" /\ e.status \in {"completed", "failed"}
        Closes(e) == IsRunning(e) \/ e.ev \in {"complete", "interrupted", "error"}
    IN
    /\ \A i \in 1..Len(ev) : \A j \in (i + 1)..Len(ev) :
          (/\ IsRunning(ev[i]) /\ Closes(ev[j])
           /\ \A k \in (i + 1)..(j - 1) : ~Closes(ev[k]))
             => Cardinality({k \in (i + 1)..(j - 1) : IsEnded(ev[k])}) = 1
    /\ \A j \in 1..Len(ev) :
          IsEnded(ev[j]) =>
             \E i \in 1..(j - 1) :
                /\ IsRunning(ev[i])
                /\ \A k \in (i + 1)..(j - 1) : ~IsEnded(ev[k])

\* C37: a run that returned appended exactly two messages after the
\* history it found, its task as a user message and directly after it its
\* final answer with its react_steps as an assistant message; they stay
\* where they are and the messages before them are unchanged, whatever
\* other runs on the same context do; runs that do not return append
\* nothing.
C37_TwoAdjacentMessages ==
    /\ \A i \in 1..HistRuns :
          hist.runs[i].pc = "returned" =>
             LET r == hist.runs[i]
                 at == Len(r.before) + 1
                 h == hist.message_history
             IN /\ r.after_len = Len(r.before) + 2
                /\ Len(h) >= at + 1
                /\ SubSeq(h, 1, at - 1) = r.before
                /\ h[at].role = "user" /\ h[at].content = r.task
                /\ h[at + 1].role = "assistant" /\ h[at + 1].content = r.final_answer
                /\ h[at + 1].react_steps = r.react_steps
    /\ Len(hist.message_history) =
          2 * Cardinality({i \in 1..HistRuns : hist.runs[i].pc = "returned"})

\* Two runs that overlapped have both returned, with different tasks and
\* with react_steps.
C37_Witness ==
    /\ \A i \in 1..HistRuns : hist.runs[i].pc = "returned"
    /\ \E i \in 1..HistRuns : hist.runs[i].overlapped
    /\ hist.runs[1].task # hist.runs[2].task
    /\ \A i \in 1..HistRuns : hist.runs[i].react_steps # << >>

=============================================================================
